---------------------------- MODULE Spec2Model ----------------------------
(***************************************************************************)
(* A model of validate-api-request: the schema validator                   *)
(* (validation/validator.go), the route resolver and the request           *)
(* validation stages (validation/route.go, parameters.go, body.go,         *)
(* security.go) and the specification store (oas/manager.go).              *)
(*                                                                         *)
(* Conventions.                                                            *)
(*  - A Go pointer or slice that may be nil is a set with at most one      *)
(*    element: {} is nil, {x} points to x.                                 *)
(*  - A decoded JSON value (Go interface{}) is a record tagged by k.       *)
(*  - A float64 number is the rational n / d, kept as the pair (n, d).      *)
(*  - A validation outcome is "T" (true), "F" (false), "P" (the call ends  *)
(*    in a runtime panic) or "L" (the recursion is deeper than MaxDepth).  *)
(***************************************************************************)
EXTENDS Integers, Sequences, FiniteSets, TLC

VARIABLES
    sv_pc,      \* schema validation: "call" before, "done" after ValidateSchema
    sv_value,   \* schema validation: the value passed to ValidateSchema
    sv_schema,  \* schema validation: the schema node passed to ValidateSchema
    sv_result,  \* schema validation: the outcome of the call
    pl_pc,      \* request validation: the stage ValidateRequest is at
    pl_apiSpec, \* request validation: the validator's apiSpec, Nil or set
    pl_req,     \* request validation: the http request
    pl_st,      \* request validation: request context, route hits, resolutions
    pl_log,     \* request validation: the stages run so far and their results
    pl_result,  \* request validation: what ValidateRequest returns
    st_apiSpecs, \* store: OASManager.apiSpecs, name -> specification
    st_config,  \* store: OASManager.config
    st_clock,   \* store: the time time.Now() returns
    st_nextId,  \* store: the identity the next allocated APISpec gets
    st_last,    \* store: the last operation, its arguments, result and pre-state
    cc_kind,    \* concurrent calls: what each goroutine calls
    cc_pc,      \* concurrent calls: where each goroutine is in its call
    cc_local,   \* concurrent calls: the counter value each goroutine has read
    cc_readers, \* concurrent calls: how many goroutines hold mu.RLock
    cc_HitCount,    \* concurrent calls: APISpec.HitCount of the specification
    cc_PathHitCount, \* concurrent calls: PathCache.HitCount of the route
    fn_pc,      \* helper call: "call" before, "done" after
    fn_call,    \* helper call: the helper called and its arguments
    fn_result,  \* helper call: what it returned
    mw_apiSpec, \* middleware: the apiSpec field of the shared validator
    mw_pc,      \* middleware: where each ServeHTTP call is
    mw_req,     \* middleware: the http request of each call, its body as unread
    mw_local,   \* middleware: the locals of each call (spec, context, result)
    bc_entries, \* cache: BaseCache.entries, key -> entry
    bc_maxSize, \* cache: BaseCache.maxSize
    bc_ttl,     \* cache: BaseCache.ttl
    bc_stats,   \* cache: BaseCache.stats
    bc_now,     \* cache: the time time.Now() returns
    bc_last     \* cache: the last call, its key, result and pre-state

svVars == <<sv_pc, sv_value, sv_schema, sv_result>>
plVars == <<pl_pc, pl_apiSpec, pl_req, pl_st, pl_log, pl_result>>
stVars == <<st_apiSpecs, st_config, st_clock, st_nextId, st_last>>
ccVars == <<cc_kind, cc_pc, cc_local, cc_readers, cc_HitCount, cc_PathHitCount>>
fnVars == <<fn_pc, fn_call, fn_result>>
mwVars == <<mw_apiSpec, mw_pc, mw_req, mw_local>>
bcVars == <<bc_entries, bc_maxSize, bc_ttl, bc_stats, bc_now, bc_last>>
vars == <<svVars, plVars, stVars, ccVars, fnVars, mwVars, bcVars>>

\* The parts of the state a specification does not use stay at rest.
SchemaIdle ==
    /\ sv_pc = "idle" /\ sv_value = <<>> /\ sv_schema = <<>> /\ sv_result = "none"
PipelineIdle ==
    /\ pl_pc = "idle" /\ pl_apiSpec = {} /\ pl_req = <<>>
    /\ pl_st = <<>> /\ pl_log = <<>> /\ pl_result = <<>>
StoreIdle ==
    /\ st_apiSpecs = <<>> /\ st_config = <<>> /\ st_clock = 0
    /\ st_nextId = 0 /\ st_last = <<>>
ConcurrentIdle ==
    /\ cc_kind = <<>> /\ cc_pc = <<>> /\ cc_local = <<>>
    /\ cc_readers = 0 /\ cc_HitCount = 0 /\ cc_PathHitCount = 0
HelperIdle ==
    /\ fn_pc = "idle" /\ fn_call = <<>> /\ fn_result = <<>>
MiddlewareIdle ==
    /\ mw_apiSpec = {} /\ mw_pc = <<>> /\ mw_req = <<>> /\ mw_local = <<>>
CacheIdle ==
    /\ bc_entries = <<>> /\ bc_maxSize = 0 /\ bc_ttl = 0 /\ bc_now = 0
    /\ bc_stats = <<>>
    /\ bc_last = <<>>

-----------------------------------------------------------------------------
(* Bounds of the model.                                                    *)

\* Deepest chain of nested ValidateSchema calls that is followed.
MaxDepth == 12

-----------------------------------------------------------------------------
(* Nil-able references.                                                    *)

Nil == {}
Ptr(x) == {x}
Deref(p) == CHOOSE x \in p : TRUE

-----------------------------------------------------------------------------
(* Decoded JSON values: what json.Decode leaves in an interface{}.         *)

Num(i) == [k |-> "num", n |-> i, d |-> 1]      \* the integer i as a float64
Frac(p, q) == [k |-> "num", n |-> p, d |-> q]  \* p / q, with q > 0
Str(s) == [k |-> "str", s |-> s]
Bool(b) == [k |-> "bool", b |-> b]
Null == [k |-> "null"]
Arr(a) == [k |-> "arr", a |-> a]
Obj(f) == [k |-> "obj", f |-> f]

\* int(x) of Go: truncation toward zero.
Trunc(x) == IF x.n >= 0 THEN x.n \div x.d ELSE -((-x.n) \div x.d)

\* x < y on float64 values.
NumLess(x, y) == x.n * y.d < y.n * x.d

\* x == float64(int64(x)): x has no fractional part.
IsWhole(x) == x.n % x.d = 0

\* strconv.ParseFloat(str, 64) on the strings of the model: Nil is an error.
ParseNumber(str) ==
    CASE str = "5" -> Ptr(Num(5))
      [] str = "10" -> Ptr(Num(10))
      [] str = "123" -> Ptr(Num(123))
      [] str = "2.5" -> Ptr(Frac(5, 2))
      [] OTHER -> Nil

\* json.Unmarshal([]byte(str), &arr) with arr []interface{}: Nil is an error.
JsonUnmarshalArray(str) ==
    CASE str = "[5,10]" -> Ptr(<<Num(5), Num(10)>>)
      [] str = "[]" -> Ptr(<<>>)
      [] str = "null" -> Ptr(<<>>)
      [] OTHER -> Nil

\* json.Unmarshal([]byte(str), &obj) with obj map[string]interface{}.
JsonUnmarshalObject(str) ==
    CASE str = "{}" -> Ptr(<<>>)
      [] str = "null" -> Ptr(<<>>)
      [] str = "{\"age\":5}" -> Ptr([age |-> Num(5)])
      [] OTHER -> Nil

\* strings.ToLower on the strings of the model.
ToLower(str) ==
    CASE str = "TRUE" -> "true"
      [] str = "True" -> "true"
      [] str = "FALSE" -> "false"
      [] str = "Bearer" -> "bearer"
      [] str = "Basic" -> "basic"
      [] str = "Digest" -> "digest"
      [] str = "ApiKey" -> "apikey"
      [] str = "Bearer tok" -> "bearer tok"
      [] str = "Basic tok" -> "basic tok"
      [] str = "Digest tok" -> "digest tok"
      [] str = "ApiKey tok" -> "apikey tok"
      [] str = "Bearer " -> "bearer "
      [] OTHER -> str

-----------------------------------------------------------------------------
(* Schema nodes (oas.Schema).  Every field is present; EmptySchema is the  *)
(* zero value of the Go struct.                                            *)

EmptySchema ==
    [Ref |-> "", Type |-> "", Properties |-> <<>>, Required |-> {},
     Items |-> Nil, Enum |-> Nil, AllOf |-> Nil, OneOf |-> Nil, AnyOf |-> Nil,
     Discriminator |-> Nil, MinLength |-> Nil, MaxLength |-> Nil,
     Minimum |-> Nil, Maximum |-> Nil, MultipleOf |-> Nil,
     MinItems |-> Nil, MaxItems |-> Nil, UniqueItems |-> FALSE,
     AdditionalProperties |-> Nil]

SchemaPrefix == "#/components/schemas/"
SchemaRef(name) == SchemaPrefix \o name

RefTo(name) == [EmptySchema EXCEPT !.Ref = SchemaRef(name)]
TypeOf(t) == [EmptySchema EXCEPT !.Type = t]
AllOfNode(ms) == [EmptySchema EXCEPT !.AllOf = Ptr(ms)]
OneOfNode(ms) == [EmptySchema EXCEPT !.OneOf = Ptr(ms)]
AnyOfNode(ms) == [EmptySchema EXCEPT !.AnyOf = Ptr(ms)]
ObjectOf(props, req) ==
    [EmptySchema EXCEPT !.Type = "object", !.Properties = props, !.Required = req]
Discr(prop, mapping) == Ptr([PropertyName |-> prop, Mapping |-> mapping])


-----------------------------------------------------------------------------
(* References and discriminators.                                          *)

\* Every name that follows "#/components/schemas/" in a reference of the model.
RefNames ==
    {"", "SimpleDog", "SimpleCat", "Pet", "Dog", "Cat", "PetByAge", "PetByType",
     "Age", "AgeAlias", "Name", "Tags", "Owner", "Bird"}

\* strings.TrimPrefix(ref, "#/components/schemas/")
TrimSchemaPrefix(ref) ==
    IF \E name \in RefNames : ref = SchemaRef(name)
    THEN CHOOSE name \in RefNames : ref = SchemaRef(name)
    ELSE ref

\* resolveSchemaReference: the schema stored under the reference, Nil for the
\* error "schema reference not found".  schemas is apiSpec.Components.Schemas.
resolveSchemaReference(schemas, ref) ==
    LET name == TrimSchemaPrefix(ref)
    IN  IF name \in DOMAIN schemas THEN Ptr(schemas[name]) ELSE Nil

\* A plausible slip of resolveDiscriminator: the explicit mapping is not
\* consulted.
resolveDiscriminatorNoMapping(schemas, value, schema) ==
    LET prop == Deref(schema.Discriminator).PropertyName
    IN  IF value.k # "obj" THEN Nil
        ELSE IF prop \notin DOMAIN value.f THEN Nil
        ELSE IF value.f[prop].k # "str" THEN Nil
        ELSE resolveSchemaReference(schemas, SchemaRef(value.f[prop].s))

\* resolveDiscriminator: the schema the discriminator property selects, Nil
\* for each of its errors.
resolveDiscriminator(schemas, value, schema) ==
    LET disc == Deref(schema.Discriminator)
        prop == disc.PropertyName
    IN  IF value.k # "obj" THEN Nil
        ELSE IF prop \notin DOMAIN value.f THEN Nil
        ELSE IF value.f[prop].k # "str" THEN Nil
        ELSE LET discriminatorValue == value.f[prop].s
                 schemaRef ==
                     IF Cardinality(DOMAIN disc.Mapping) > 0
                     THEN IF discriminatorValue \in DOMAIN disc.Mapping
                          THEN disc.Mapping[discriminatorValue]
                          ELSE ""
                     ELSE SchemaRef(discriminatorValue)
             IN  IF schemaRef = "" THEN Nil
                 ELSE resolveSchemaReference(schemas, schemaRef)

-----------------------------------------------------------------------------
(* Leaf checks.                                                            *)

Abnormal == {"P", "L"}
OfBool(b) == IF b THEN "T" ELSE "F"

\* An unordered loop that stops at the first outcome other than "T": the
\* Boolean outcome does not depend on the order Go ranges over the map; an
\* abnormal end is reported when some order reaches it.
Worst(outcomes) ==
    IF "P" \in outcomes THEN "P"
    ELSE IF "L" \in outcomes THEN "L"
    ELSE IF "F" \in outcomes THEN "F"
    ELSE "T"

SeqToSet(q) == {q[i] : i \in DOMAIN q}

\* helpers.IsBoolean
IsBoolean(value) ==
    CASE value.k = "bool" -> TRUE
      [] value.k = "str" -> ToLower(value.s) \in {"true", "false"}
      [] OTHER -> FALSE

\* validateString, for schemas that declare neither pattern nor format.
validateString(value, schema) ==
    IF value.k # "str" THEN "F"
    ELSE IF schema.MinLength # Nil /\ Len(value.s) < Deref(schema.MinLength) THEN "F"
    ELSE IF schema.MaxLength # Nil /\ Len(value.s) > Deref(schema.MaxLength) THEN "F"
    ELSE IF schema.Enum # Nil
            /\ \/ \E e \in SeqToSet(Deref(schema.Enum)) : e.k # "str"
               \/ Str(value.s) \notin SeqToSet(Deref(schema.Enum))
         THEN "F"
    ELSE "T"

Abs(i) == IF i >= 0 THEN i ELSE -i

\* validateNumber, for schemas that declare no format.  int(*schema.MultipleOf) = 0 makes the integer remainder a
\* division by zero, which panics.
validateNumber(value, schema) ==
    LET parsed == IF value.k = "str" THEN ParseNumber(value.s) ELSE Ptr(value)
    IN  IF parsed = Nil THEN "F"
        ELSE LET num == Deref(parsed)
             IN  IF num.k # "num" THEN "F"
                 ELSE IF schema.Minimum # Nil /\ NumLess(num, Deref(schema.Minimum))
                      THEN "F"
                 ELSE IF schema.Maximum # Nil /\ NumLess(Deref(schema.Maximum), num)
                      THEN "F"
                 ELSE IF schema.MultipleOf # Nil /\ Trunc(Deref(schema.MultipleOf)) = 0
                      THEN "P"
                 ELSE IF schema.MultipleOf # Nil
                         /\ Abs(Trunc(num)) % Abs(Trunc(Deref(schema.MultipleOf))) # 0
                      THEN "F"
                 ELSE CASE schema.Type = "integer" -> OfBool(IsWhole(num))
                        [] schema.Type = "number" -> "T"
                        [] OTHER -> "F"

\* helpers.UniqueItems: the items are keys of a Go map, so an item that is a
\* map or a slice panics (unhashable type).
UniqueItems(arr) ==
    LET stops == {i \in DOMAIN arr :
                    \/ arr[i].k \in {"obj", "arr"}
                    \/ \E j \in 1..(i - 1) : arr[j] = arr[i]}
    IN  IF stops = {} THEN "T"
        ELSE LET first == CHOOSE i \in stops : \A j \in stops : i <= j
             IN  IF arr[first].k \in {"obj", "arr"} THEN "P" ELSE "F"

-----------------------------------------------------------------------------
(* The recursive validator.  depth is the number of nested ValidateSchema  *)
(* calls still followed; schemas is apiSpec.Components.Schemas.            *)

RECURSIVE ValidateSchema(_, _, _, _)
RECURSIVE ValidateSchemaType(_, _, _, _)
RECURSIVE validateArray(_, _, _, _)
RECURSIVE validateObject(_, _, _, _)
RECURSIVE AllOfFrom(_, _, _, _, _)
RECURSIVE OneOfFrom(_, _, _, _, _, _)
RECURSIVE AnyOfFrom(_, _, _, _, _)
RECURSIVE ItemsFrom(_, _, _, _, _)

\* The allOf loop from member i on: false at the first member that fails.
AllOfFrom(schemas, value, members, i, depth) ==
    IF i > Len(members) THEN "T"
    ELSE LET r == ValidateSchema(schemas, value, members[i], depth)
         IN  IF r # "T" THEN r
             ELSE AllOfFrom(schemas, value, members, i + 1, depth)

\* A plausible slip of the oneOf verdict: one match or more.
OneOfVerdictAtLeastOne(validCount) == OfBool(validCount >= 1)

\* return validCount == 1
OneOfVerdict(validCount) == OfBool(validCount = 1)

\* The oneOf loop from member i on: every member is tried, validCount counts.
OneOfFrom(schemas, value, members, i, validCount, depth) ==
    IF i > Len(members) THEN OneOfVerdict(validCount)
    ELSE LET r == ValidateSchema(schemas, value, members[i], depth)
         IN  IF r \in Abnormal THEN r
             ELSE OneOfFrom(schemas, value, members, i + 1,
                            IF r = "T" THEN validCount + 1 ELSE validCount, depth)

\* The anyOf loop from member i on: true at the first member that validates.
AnyOfFrom(schemas, value, members, i, depth) ==
    IF i > Len(members) THEN "F"
    ELSE LET r == ValidateSchema(schemas, value, members[i], depth)
         IN  IF r # "F" THEN r
             ELSE AnyOfFrom(schemas, value, members, i + 1, depth)

ValidateSchema(schemas, value, schema, depth) ==
    IF depth = 0 THEN "L"
    ELSE IF schema.Discriminator # Nil
    THEN LET resolved == resolveDiscriminator(schemas, value, schema)
         IN  IF resolved = Nil THEN "F"
             ELSE ValidateSchema(schemas, value, Deref(resolved), depth - 1)
    ELSE LET target == IF schema.Ref # ""
                       THEN resolveSchemaReference(schemas, schema.Ref)
                       ELSE Ptr(schema)
         IN  IF target = Nil THEN "F"
             ELSE LET s == Deref(target)
                  IN  IF s.AllOf # Nil
                      THEN AllOfFrom(schemas, value, Deref(s.AllOf), 1, depth - 1)
                      ELSE IF s.OneOf # Nil
                      THEN OneOfFrom(schemas, value, Deref(s.OneOf), 1, 0, depth - 1)
                      ELSE IF s.AnyOf # Nil
                      THEN AnyOfFrom(schemas, value, Deref(s.AnyOf), 1, depth - 1)
                      ELSE ValidateSchemaType(schemas, value, s, depth - 1)

ValidateSchemaType(schemas, value, paramSchema, depth) ==
    CASE paramSchema.Type = "string" -> validateString(value, paramSchema)
      [] paramSchema.Type \in {"integer", "number"} -> validateNumber(value, paramSchema)
      [] paramSchema.Type = "boolean" -> OfBool(IsBoolean(value))
      [] paramSchema.Type = "array" -> validateArray(schemas, value, paramSchema, depth)
      [] paramSchema.Type \in {"object", ""} ->
             validateObject(schemas, value, paramSchema, depth)
      [] OTHER -> "F"

\* The loop over the items from index i on.  schema.Items nil is a nil
\* pointer dereference at schema.Items.Ref.
ItemsFrom(schemas, arr, schema, i, depth) ==
    IF i > Len(arr) THEN "T"
    ELSE IF schema.Items = Nil THEN "P"
    ELSE LET items == Deref(schema.Items)
             target == IF items.Ref # ""
                       THEN resolveSchemaReference(schemas, items.Ref)
                       ELSE Ptr(items)
         IN  IF target = Nil THEN "F"
             ELSE LET r == ValidateSchema(schemas, arr[i], Deref(target), depth)
                  IN  IF r # "T" THEN r
                      ELSE ItemsFrom(schemas, arr, schema, i + 1, depth)

validateArray(schemas, value, schemaIn, depth) ==
    LET target == IF schemaIn.Ref # ""
                  THEN resolveSchemaReference(schemas, schemaIn.Ref)
                  ELSE Ptr(schemaIn)
    IN  IF target = Nil THEN "F"
        ELSE IF value.k \notin {"str", "arr"} THEN "F"
        ELSE LET schema == Deref(target)
                 decoded == IF value.k = "str" THEN JsonUnmarshalArray(value.s) ELSE Nil
                 arr == IF value.k = "arr" THEN value.a
                        ELSE IF decoded # Nil THEN Deref(decoded)
                        ELSE <<Str(value.s)>>
                 unique == IF schema.UniqueItems THEN UniqueItems(arr) ELSE "T"
             IN  IF schema.MinItems # Nil /\ Len(arr) < Deref(schema.MinItems) THEN "F"
                 ELSE IF schema.MaxItems # Nil /\ Len(arr) > Deref(schema.MaxItems) THEN "F"
                 ELSE IF unique # "T" THEN unique
                 ELSE ItemsFrom(schemas, arr, schema, 1, depth)

\* The outcome of one declared property of validateObject's first loop.
PropertyOutcome(schemas, obj, schema, propName, depth) ==
    IF propName \notin DOMAIN obj
    THEN OfBool(propName \notin schema.Required)
    ELSE LET propSchema == schema.Properties[propName]
             target == IF propSchema.Ref # ""
                       THEN resolveSchemaReference(schemas, propSchema.Ref)
                       ELSE Ptr(propSchema)
         IN  IF target = Nil THEN "F"
             ELSE ValidateSchema(schemas, obj[propName], Deref(target), depth)

\* The outcome of one key of validateObject's additionalProperties loop.
\* AdditionalProperties is an interface{}: only a *oas.Schema passes the type
\* assertion.
AdditionalOutcome(schemas, obj, schema, propName, depth) ==
    LET additional == Deref(schema.AdditionalProperties)
    IN  IF propName \in DOMAIN schema.Properties THEN "T"
        ELSE IF ~additional.isSchema THEN "F"
        ELSE ValidateSchema(schemas, obj[propName], additional.schema, depth)

validateObject(schemas, value, schemaIn, depth) ==
    LET target == IF schemaIn.Ref # ""
                  THEN resolveSchemaReference(schemas, schemaIn.Ref)
                  ELSE Ptr(schemaIn)
    IN  IF target = Nil THEN "F"
        ELSE IF value.k \notin {"str", "obj"} THEN "F"
        ELSE LET schema == Deref(target)
                 decoded == IF value.k = "str" THEN JsonUnmarshalObject(value.s) ELSE Nil
                 obj == IF value.k = "obj" THEN value.f
                        ELSE IF decoded # Nil THEN Deref(decoded)
                        ELSE [value |-> Str(value.s)]
                 declared == Worst({PropertyOutcome(schemas, obj, schema, p, depth) :
                                      p \in DOMAIN schema.Properties})
             IN  IF declared # "T" THEN declared
                 ELSE IF schema.AdditionalProperties = Nil THEN "T"
                 ELSE Worst({AdditionalOutcome(schemas, obj, schema, p, depth) :
                               p \in DOMAIN obj})

-----------------------------------------------------------------------------
(* The component store of oas_files/advancedoas.swagger.io.json, with two  *)
(* more schemas: a plain integer and a schema that is only a $ref.         *)

DogBody ==
    ObjectOf([bark |-> TypeOf("boolean"),
              breed |-> [TypeOf("string") EXCEPT
                         !.Enum = Ptr(<<Str("Dingo"), Str("Husky"),
                                        Str("Retriever"), Str("Shepherd")>>)]], {})

CatBody ==
    ObjectOf([hunts |-> TypeOf("boolean"), age |-> TypeOf("integer")], {"age"})

SchemaStore ==
    [SimpleDog |-> DogBody,
     SimpleCat |-> ObjectOf([hunts |-> TypeOf("boolean"), age |-> TypeOf("integer")], {}),
     Pet |-> [ObjectOf([pet_type |-> TypeOf("string")], {"pet_type"}) EXCEPT
              !.Discriminator = Discr("pet_type", <<>>)],
     Dog |-> AllOfNode(<<RefTo("Pet"), DogBody>>),
     Cat |-> AllOfNode(<<RefTo("Pet"), CatBody>>),
     PetByAge |-> ObjectOf([age |-> TypeOf("integer"), nickname |-> TypeOf("string")],
                           {"age"}),
     PetByType |-> ObjectOf([pet_type |-> [TypeOf("string") EXCEPT
                                           !.Enum = Ptr(<<Str("Cat"), Str("Dog")>>)],
                             hunts |-> TypeOf("boolean")], {"pet_type"}),
     Age |-> [TypeOf("integer") EXCEPT !.Minimum = Ptr(Num(0))],
     AgeAlias |-> RefTo("Age")]

-----------------------------------------------------------------------------
(* Inputs of the schema validation runs.                                   *)

\* Longest allOf / oneOf / anyOf list that is enumerated.
MaxMembers == 2

SchemaValues ==
    {Obj([pet_type |-> Str("Cat"), age |-> Num(3)]),
     Obj([pet_type |-> Str("Dog"), bark |-> Bool(TRUE)]),
     Obj([pet_type |-> Str("Dog"), bark |-> Bool(FALSE), breed |-> Str("Dingo")]),
     Obj([pet_type |-> Str("Dog"), bark |-> Bool(TRUE), breed |-> Str("Husky")]),
     Obj([pet_type |-> Str("Cat"), bark |-> Bool(TRUE)]),
     Obj([pet_type |-> Str("Pet")]),
     Obj([pet_type |-> Str("Bird"), age |-> Num(3)]),
     Obj([pet_type |-> Num(7)]),
     Obj([age |-> Num(3)]),
     Obj([age |-> Str("old")]),
     Obj(<<>>),
     Num(5), Num(-1), Frac(5, 2), Str("5"), Str("abc"), Bool(TRUE), Null,
     Arr(<<Num(5)>>)}

\* The sequences over S of length 0 .. MaxMembers.
MemberLists(S) == UNION {[1..n -> S] : n \in 0..MaxMembers}

Compositions(S) ==
    UNION {{AllOfNode(ms), OneOfNode(ms), AnyOfNode(ms)} : ms \in MemberLists(S)}

LeafNodes ==
    {RefTo("Cat"), RefTo("Dog"), RefTo("PetByAge"), RefTo("PetByType"),
     TypeOf("integer"), RefTo("Bird")}

\* Members of the nested compositions.
InnerNodes ==
    {AllOfNode(<<RefTo("PetByAge"), RefTo("PetByType")>>),
     OneOfNode(<<RefTo("Cat"), RefTo("Dog")>>),
     AnyOfNode(<<RefTo("PetByAge"), TypeOf("integer")>>),
     RefTo("SimpleCat")}

\* Nodes that carry more than one of $ref, allOf, oneOf, anyOf.
MixedNodes ==
    {[AllOfNode(<<RefTo("PetByAge")>>) EXCEPT
        !.OneOf = Ptr(<<RefTo("PetByAge"), RefTo("SimpleCat")>>)],
     [AllOfNode(<<RefTo("PetByAge")>>) EXCEPT !.AnyOf = Ptr(<<RefTo("Dog")>>)],
     [OneOfNode(<<RefTo("PetByAge"), RefTo("SimpleCat")>>) EXCEPT
        !.AnyOf = Ptr(<<RefTo("PetByAge")>>)],
     [RefTo("PetByAge") EXCEPT !.AllOf = Ptr(<<RefTo("Dog")>>)],
     [RefTo("Age") EXCEPT !.OneOf = Ptr(<<TypeOf("integer")>>)],
     [RefTo("Bird") EXCEPT !.AnyOf = Ptr(<<TypeOf("integer")>>)]}

PetMapping ==
    [Dog |-> SchemaRef("Dog"), Cat |-> SchemaRef("Cat"), Kitten |-> "Cat",
     Bird |-> SchemaRef("Bird")]

\* Nodes with a discriminator: over oneOf, over anyOf, alone, with and
\* without an explicit mapping, and beside a $ref.
DiscriminatorNodes ==
    {[OneOfNode(<<RefTo("Cat"), RefTo("Dog")>>) EXCEPT
        !.Discriminator = Discr("pet_type", <<>>)],
     [OneOfNode(<<RefTo("Dog"), RefTo("Cat")>>) EXCEPT
        !.Discriminator = Discr("pet_type", PetMapping)],
     [AnyOfNode(<<RefTo("Cat"), RefTo("Dog")>>) EXCEPT
        !.Discriminator = Discr("pet_type", <<>>)],
     [AnyOfNode(<<RefTo("PetByAge"), RefTo("PetByType")>>) EXCEPT
        !.Discriminator = Discr("pet_type", PetMapping)],
     [EmptySchema EXCEPT !.Discriminator = Discr("pet_type", <<>>)],
     [RefTo("PetByAge") EXCEPT !.Discriminator = Discr("pet_type", <<>>)]}

StoreNodes == {SchemaStore[name] : name \in DOMAIN SchemaStore}
StoreRefs == {RefTo(name) : name \in DOMAIN SchemaStore}

SchemaNodes ==
    Compositions(LeafNodes) \cup Compositions(InnerNodes) \cup MixedNodes
    \cup DiscriminatorNodes \cup StoreNodes \cup StoreRefs \cup LeafNodes

-----------------------------------------------------------------------------
(* Schema validation runs: one call of ValidateSchema on drawn inputs.     *)

SchemaInit ==
    /\ sv_pc = "call"
    /\ sv_value \in SchemaValues
    /\ sv_schema \in SchemaNodes
    /\ sv_result = "none"
    /\ PipelineIdle /\ StoreIdle /\ ConcurrentIdle /\ HelperIdle
    /\ MiddlewareIdle /\ CacheIdle

CallValidateSchema ==
    /\ sv_pc = "call"
    /\ sv_result' = ValidateSchema(SchemaStore, sv_value, sv_schema, MaxDepth)
    /\ sv_pc' = "done"
    /\ UNCHANGED <<sv_value, sv_schema, plVars, stVars, ccVars, fnVars, mwVars, bcVars>>

SchemaNext == CallValidateSchema

SpecSchema == SchemaInit /\ [][SchemaNext]_vars

-----------------------------------------------------------------------------
(* Properties of the schema validator (checked under SpecSchema).          *)

Outcome(value, schema) == ValidateSchema(SchemaStore, value, schema, MaxDepth)
Returned(r) == r \in {"T", "F"}

\* The node and the composition members nested in it, at every depth.
RECURSIVE Nested(_)
Nested(schema) ==
    LET members == (IF schema.AllOf # Nil THEN SeqToSet(Deref(schema.AllOf)) ELSE {})
                   \cup (IF schema.OneOf # Nil THEN SeqToSet(Deref(schema.OneOf)) ELSE {})
                   \cup (IF schema.AnyOf # Nil THEN SeqToSet(Deref(schema.AnyOf)) ELSE {})
    IN  {schema} \cup UNION {Nested(m) : m \in members}

ValidMembers(value, members) == {i \in DOMAIN members : Outcome(value, members[i]) = "T"}

AllOfRule(value, node, r) ==
    (r = "T") <=> (ValidMembers(value, Deref(node.AllOf)) = DOMAIN Deref(node.AllOf))
OneOfRule(value, node, r) ==
    (r = "T") <=> (Cardinality(ValidMembers(value, Deref(node.OneOf))) = 1)
AnyOfRule(value, node, r) ==
    (r = "T") <=> (ValidMembers(value, Deref(node.AnyOf)) # {})

\* The claim as stated: each list, wherever it is set, decides the node.
CompositionAsStated(value, node, r) ==
    (node.Discriminator = Nil /\ Returned(r)) =>
        /\ node.AllOf # Nil => AllOfRule(value, node, r)
        /\ node.OneOf # Nil => OneOfRule(value, node, r)
        /\ node.AnyOf # Nil => AnyOfRule(value, node, r)

\* The claim with the validator's precedence: $ref, then allOf, then oneOf,
\* then anyOf.
CompositionByPrecedence(value, node, r) ==
    (node.Discriminator = Nil /\ node.Ref = "" /\ Returned(r)) =>
        /\ node.AllOf # Nil => AllOfRule(value, node, r)
        /\ (node.OneOf # Nil /\ node.AllOf = Nil) => OneOfRule(value, node, r)
        /\ (node.AnyOf # Nil /\ node.AllOf = Nil /\ node.OneOf = Nil) =>
               AnyOfRule(value, node, r)

\* C4 as stated: for every value and every schema node without a
\* discriminator, at every nesting depth, a node with allOf is valid iff every
\* member validates the value, a node with oneOf iff exactly one member does,
\* a node with anyOf iff at least one does.
C4_CompositionAsStated ==
    sv_pc = "done" =>
        /\ CompositionAsStated(sv_value, sv_schema, sv_result)
        /\ \A node \in Nested(sv_schema) :
               CompositionAsStated(sv_value, node, Outcome(sv_value, node))

\* C4 amended: whenever ValidateSchema returns, for every schema node with
\* neither a discriminator nor a $ref, at every nesting depth: a node with
\* allOf is valid iff every allOf member validates the value; a node with
\* oneOf and no allOf is valid iff exactly one oneOf member validates it; a
\* node with anyOf and neither allOf nor oneOf is valid iff at least one anyOf
\* member validates it.
C4_CompositionByPrecedence ==
    sv_pc = "done" =>
        /\ CompositionByPrecedence(sv_value, sv_schema, sv_result)
        /\ \A node \in Nested(sv_schema) :
               CompositionByPrecedence(sv_value, node, Outcome(sv_value, node))

\* C4 witness: a oneOf nested in a composition is rejected because two of its
\* members validate the value.
C4_Witness ==
    /\ sv_pc = "done"
    /\ sv_schema.Discriminator = Nil /\ sv_schema.Ref = ""
    /\ sv_schema.AllOf = Nil /\ sv_schema.OneOf # Nil
    /\ \E i \in DOMAIN Deref(sv_schema.OneOf) :
           LET m == Deref(sv_schema.OneOf)[i]
           IN  /\ m.OneOf # Nil /\ m.Ref = ""
               /\ Cardinality(ValidMembers(sv_value, Deref(m.OneOf))) = 2
    /\ sv_result = "F"

\* The schema a discriminator selects, as the specification words it: through
\* the explicit mapping, or #/components/schemas/<value> without a mapping.
SelectedSchema(value, node) ==
    LET disc == Deref(node.Discriminator)
        tag == IF value.k = "obj" /\ disc.PropertyName \in DOMAIN value.f
                  /\ value.f[disc.PropertyName].k = "str"
               THEN Ptr(value.f[disc.PropertyName].s)
               ELSE Nil
        ref == IF tag = Nil THEN Nil
               ELSE IF DOMAIN disc.Mapping = {} THEN Ptr(SchemaRef(Deref(tag)))
               ELSE IF Deref(tag) \in DOMAIN disc.Mapping
               THEN Ptr(disc.Mapping[Deref(tag)])
               ELSE Nil
    IN  IF ref = Nil THEN Nil
        ELSE {SchemaStore[name] : name \in {n \in DOMAIN SchemaStore :
                                               Deref(ref) \in {n, SchemaRef(n)}}}

\* C5: when a schema node has a discriminator, the result of ValidateSchema is
\* the result of validating the value against the selected schema alone, and
\* false when no schema is selected; the node's oneOf / anyOf lists play no part.
C5_DiscriminatorDispatch ==
    (sv_pc = "done" /\ sv_schema.Discriminator # Nil) =>
        LET selected == SelectedSchema(sv_value, sv_schema)
        IN  IF selected = Nil THEN sv_result = "F"
            ELSE sv_result = Outcome(sv_value, Deref(selected))

\* C5 witness: the value satisfies exactly one oneOf alternative, which is not
\* the selected one, and is rejected.
C5_Witness ==
    /\ sv_pc = "done"
    /\ sv_schema.Discriminator # Nil /\ sv_schema.OneOf # Nil
    /\ Cardinality(ValidMembers(sv_value, Deref(sv_schema.OneOf))) = 1
    /\ SelectedSchema(sv_value, sv_schema) # Nil
    /\ Outcome(sv_value, Deref(SelectedSchema(sv_value, sv_schema))) = "F"
    /\ sv_result = "F"

\* C6: for every value v and every schema S of the component store,
\* ValidateSchema(v, {$ref: S}) returns what ValidateSchema(v, S) returns.
C6_RefTransparent ==
    \A name \in DOMAIN SchemaStore :
        (sv_pc = "done" /\ sv_schema = RefTo(name)) =>
            sv_result = Outcome(sv_value, SchemaStore[name])

\* The names of the component store a schema refers to, by its own $ref or
\* by a $ref of an allOf, oneOf or anyOf member, a property or the items.
RECURSIVE RefsIn(_)
RefsIn(schema) ==
    LET parts == (IF schema.AllOf # Nil THEN SeqToSet(Deref(schema.AllOf)) ELSE {})
                 \cup (IF schema.OneOf # Nil THEN SeqToSet(Deref(schema.OneOf)) ELSE {})
                 \cup (IF schema.AnyOf # Nil THEN SeqToSet(Deref(schema.AnyOf)) ELSE {})
                 \cup {schema.Properties[p] : p \in DOMAIN schema.Properties}
                 \cup schema.Items
    IN  (IF schema.Ref # "" THEN {TrimSchemaPrefix(schema.Ref)} ELSE {})
        \cup UNION {RefsIn(part) : part \in parts}

\* The names reached from the names of from in at most steps references.
RECURSIVE ReachedFrom(_, _, _)
ReachedFrom(schemas, from, steps) ==
    IF steps = 0 THEN from
    ELSE ReachedFrom(schemas,
                     from \cup UNION {RefsIn(schemas[name]) :
                                         name \in from \cap DOMAIN schemas},
                     steps - 1)

NoSchemaReachesItself(schemas) ==
    \A name \in DOMAIN schemas :
        name \notin ReachedFrom(schemas, RefsIn(schemas[name]),
                                Cardinality(DOMAIN schemas))

\* C21: over a component store in which no schema is reachable from itself,
\* ValidateSchema returns for every value and every schema, schemas with a
\* discriminator included: the recursion never goes deeper than MaxDepth
\* calls, which no schema tree of the model needs.
C21_ValidationTerminates ==
    (sv_pc = "done" /\ NoSchemaReachesItself(SchemaStore)) => sv_result # "L"

-----------------------------------------------------------------------------
(* The specification tree (oas.APISpec) the request stages read.           *)
(* A path is the sequence of its segments: "/pets/{petId}" is              *)
(* <<"pets", "{petId}">>, and the unset route "" is <<>>.                  *)

NoRoute == <<>>

\* The segments of the model that are a placeholder "{name}".
Placeholders == {"{petId}", "{kind}", "{ownerId}"}

\* part[1 : len(part)-1] of a placeholder segment.
PlaceholderName(part) ==
    CASE part = "{petId}" -> "petId"
      [] part = "{kind}" -> "kind"
      [] part = "{ownerId}" -> "ownerId"

\* The segments of the model that hold a placeholder next to other text.
Embedded == {"report.{format}"}

\* The regular expression of an embedded segment on the segments of the
\* model: "report.([^/]+)".
EmbeddedMatch(part, segment) ==
    part = "report.{format}" /\ segment \in {"report.json", "report.x"}

\* parsePathsFromRaw compiles a matcher for the paths that hold a "{" and a "}".
HasCompiledRegex(route) ==
    \E i \in DOMAIN route : route[i] \in Placeholders \cup Embedded

\* CompiledRegex.MatchString(path): "^" + template + "$" with every
\* placeholder replaced by ([^/]+), one or more characters other than "/".
RegexMatch(route, path) ==
    /\ Len(route) = Len(path)
    /\ \A i \in DOMAIN route :
           CASE route[i] \in Placeholders -> path[i] # ""
             [] route[i] \in Embedded -> EmbeddedMatch(route[i], path[i])
             [] OTHER -> path[i] = route[i]

Param(name, in, required, schema) ==
    [Name |-> name, In |-> in, Required |-> required, Schema |-> schema]

Operation(params, requestBody, security) ==
    [Parameters |-> params, RequestBody |-> requestBody, Security |-> security]

JsonBody(required, schema) ==
    Ptr([Required |-> required,
         Content |-> [t \in {"application/json"} |-> [Schema |-> schema]]])

LimitParam ==
    Param("limit", "query", FALSE, Ptr([TypeOf("integer") EXCEPT !.Minimum = Ptr(Num(0))]))
PetIdParam == Param("petId", "path", TRUE, Ptr(TypeOf("integer")))
OwnerIdParam == Param("ownerId", "path", TRUE, Ptr(TypeOf("integer")))
KindParam ==
    Param("kind", "path", TRUE,
          Ptr([TypeOf("string") EXCEPT !.Enum = Ptr(<<Str("pets"), Str("dogs")>>)]))

PetApi ==
    [Paths |->
        (<<"pets">> :>
            [Parameters |-> <<LimitParam>>,
             Ops |-> [GET |-> Operation(<<>>, Nil, Nil),
                      POST |-> Operation(<<>>, JsonBody(TRUE, Ptr(RefTo("PetByAge"))),
                                         Nil)]])
        @@ (<<"pets", "{petId}">> :>
            [Parameters |-> <<PetIdParam>>,
             Ops |-> [GET |-> Operation(<<>>, Nil, Ptr(<<>>)),
                      DELETE |-> Operation(<<>>, Nil,
                                           Ptr(<<[apiKeyAuth |-> <<>>]>>))]])
        @@ (<<"pets", "mine">> :>
            [Parameters |-> <<>>,
             Ops |-> [GET |-> Operation(<<LimitParam>>, Nil, Ptr(<<>>))]])
        @@ (<<"{kind}", "mine">> :>
            [Parameters |-> <<KindParam>>,
             Ops |-> [GET |-> Operation(<<>>, JsonBody(FALSE, Nil), Ptr(<<>>))]])
        @@ (<<"dogs", "{ownerId}">> :>
            [Parameters |-> <<>>,
             Ops |-> [GET |-> Operation(<<OwnerIdParam>>, Nil, Ptr(<<>>))]]),
     Components |->
        [Schemas |-> SchemaStore,
         Parameters |-> [Limit |-> LimitParam],
         SecuritySchemes |->
            [bearerAuth |-> [Type |-> "http", Scheme |-> "bearer", In |-> "", Name |-> ""],
             apiKeyAuth |-> [Type |-> "apiKey", Scheme |-> "", In |-> "header",
                             Name |-> "X-Api-Key"]]],
     Security |-> <<[bearerAuth |-> <<>>]>>]

-----------------------------------------------------------------------------
(* Route resolution (validation/route.go).                                 *)

\* A plausible slip of the lookup: the templates are tried although the path
\* is a key of the route map.
ResolveCandidatesTemplatesToo(paths, path) ==
    {route \in DOMAIN paths :
        route = path \/ (HasCompiledRegex(route) /\ RegexMatch(route, path))}

\* The entries ResolveRequestPath may return for path: the exact entry when
\* path is a key, else any template whose matcher accepts path (Go ranges
\* over the map in an unspecified order and keeps the first match).
ResolveCandidates(paths, path) ==
    IF path \in DOMAIN paths THEN {path}
    ELSE {route \in DOMAIN paths : HasCompiledRegex(route) /\ RegexMatch(route, path)}

\* The path ResolveRequestPath looks up: the route of the context when set.
LookupPath(req, ctx) == IF ctx.Route # NoRoute THEN ctx.Route ELSE req.Path

\* strings.ToUpper(req.Request.Method) on the methods of the model.
ToUpper(method) ==
    CASE method = "get" -> "GET"
      [] method = "post" -> "POST"
      [] OTHER -> method

\* The methods of GetOperation's methodMap.
MethodMapKeys == {"GET", "PUT", "POST", "DELETE", "OPTIONS", "HEAD", "PATCH", "TRACE"}

\* GetOperation: the operation of pathItem for method, Nil when there is none.
GetOperation(pathItem, method) ==
    IF method \in MethodMapKeys /\ method \in DOMAIN pathItem.Ops
    THEN Ptr(pathItem.Ops[method])
    ELSE Nil

-----------------------------------------------------------------------------
(* The stages of request validation.  A stage ends with a result and the   *)
(* validation state it leaves: the context of the request (Route,          *)
(* PathItem, Operation), the hit counters of the routes, and the number of *)
(* calls of ResolveRequestPath made so far.  Where Go leaves the order of  *)
(* a map loop open, a stage has several possible ends.                     *)

Ok == [kind |-> "ok", err |-> <<>>]
Err(msg) == [kind |-> "err", err |-> msg]
Panic == [kind |-> "panic", err |-> <<>>]
Deep == [kind |-> "deep", err |-> <<>>]

End(res, st) == [res |-> res, st |-> st]

\* NewOASRequest: only the http request is set.
NewContext == [Route |-> NoRoute, PathItem |-> Nil, Operation |-> Nil]

\* URL.Query().Get, Header.Get: "" when the name is absent.
QueryGet(req, name) == IF name \in DOMAIN req.Query THEN req.Query[name] ELSE ""
HeaderGet(req, name) == IF name \in DOMAIN req.Header THEN req.Header[name] ELSE ""

ResolveRequestPath(apiSpec, req, st) ==
    LET path == LookupPath(req, st.ctx)
        found == ResolveCandidates(apiSpec.Paths, path)
    IN  IF found = {}
        THEN {End(Err(<<"no schema found for path '%s'", path>>),
                  [st EXCEPT !.resolves = @ + 1])}
        ELSE {End(Ok, [ctx |-> [st.ctx EXCEPT !.Route = route,
                                              !.PathItem = Ptr(apiSpec.Paths[route])],
                       hits |-> [st.hits EXCEPT ![route] = @ + 1],
                       resolves |-> st.resolves + 1]) : route \in found}

ValidateRequestPath(apiSpec, req, st) == ResolveRequestPath(apiSpec, req, st)

\* The ends of a stage that first runs the stage before when the context is
\* not complete: an error of before ends the stage, else rest goes on.
Continue(before, rest(_)) ==
    UNION {IF e.res.kind = "ok" THEN rest(e.st) ELSE {e} : e \in before}

\* A plausible slip: the error names the path of the request.
MethodCheckNamesRequestPath(req, st) ==
    LET method == ToUpper(req.Method)
        operation == GetOperation(Deref(st.ctx.PathItem), method)
    IN  IF operation = Nil
        THEN {End(Err(<<"method '%s' not allowed for path '%s'", method, req.Path>>),
                  st)}
        ELSE {End(Ok, [st EXCEPT !.ctx.Operation = operation])}

MethodCheck(req, st) ==
    LET method == ToUpper(req.Method)
        operation == GetOperation(Deref(st.ctx.PathItem), method)
    IN  IF operation = Nil
        THEN {End(Err(<<"method '%s' not allowed for path '%s'", method, st.ctx.Route>>),
                  st)}
        ELSE {End(Ok, [st EXCEPT !.ctx.Operation = operation])}

ValidateRequestMethod(apiSpec, req, st) ==
    LET rest(s) == MethodCheck(req, s)
    IN  IF st.ctx.PathItem = Nil \/ st.ctx.Route = NoRoute
        THEN Continue(ResolveRequestPath(apiSpec, req, st), rest)
        ELSE rest(st)

\* A plausible slip: a path-level parameter is kept over the operation's.
mergeParametersPathWins(pathParams, opParams) ==
    LET all == opParams \o pathParams
        Key(param) == <<param.In, param.Name>>
    IN  {all[i] : i \in {j \in DOMAIN all :
                            \A l \in DOMAIN all : l > j => Key(all[l]) # Key(all[j])}}

\* mergeParameters: one parameter per key In + ":" + Name, the last of the
\* path-level list followed by the operation-level list.  The result is
\* built by ranging over a map, so its order is open: it is a set here.
mergeParameters(pathParams, opParams) ==
    LET all == pathParams \o opParams
        Key(param) == <<param.In, param.Name>>
    IN  {all[i] : i \in {j \in DOMAIN all :
                            \A l \in DOMAIN all : l > j => Key(all[l]) # Key(all[j])}}

\* extractPathParam: the segment of the request path at the position of the
\* first placeholder of the route named paramName, "" when there is none.
\* A request path shorter than that position is an index out of range.
extractPathParam(requestPath, route, paramName) ==
    LET at == {i \in DOMAIN route :
                   route[i] \in Placeholders /\ PlaceholderName(route[i]) = paramName}
    IN  IF at = {} THEN Ptr("")
        ELSE LET i == CHOOSE j \in at : \A l \in at : j <= l
             IN  IF i \in DOMAIN requestPath THEN Ptr(requestPath[i]) ELSE Nil

ParameterPrefix == "#/components/parameters/"

\* strings.TrimPrefix(ref, "#/components/parameters/") on the references of
\* the model.
TrimParameterPrefix(ref) ==
    IF \E name \in RefNames \cup {"Limit", "Offset", "Missing"} :
           ref = ParameterPrefix \o name
    THEN CHOOSE name \in RefNames \cup {"Limit", "Offset", "Missing"} :
             ref = ParameterPrefix \o name
    ELSE ref

\* resolveParameterReference: Nil is the error "parameter reference not found".
resolveParameterReference(apiSpec, ref) ==
    LET name == TrimParameterPrefix(ref)
    IN  IF name \in DOMAIN apiSpec.Components.Parameters
        THEN Ptr(apiSpec.Components.Parameters[name])
        ELSE Nil

\* The result of a call of ValidateSchema made by a stage.
SchemaCheck(apiSpec, value, schema, msg) ==
    LET r == ValidateSchema(apiSpec.Components.Schemas, value, schema, MaxDepth)
    IN  CASE r = "T" -> Ok
          [] r = "F" -> Err(msg)
          [] r = "P" -> Panic
          [] r = "L" -> Deep

\* The value of the parameter in the request, or that a cookie parameter
\* has no cookie, or the index out of range of extractPathParam.
Got(value) == [kind |-> "value", value |-> value]

ParamValue(req, route, param) ==
    CASE param.In = "query" -> Got(QueryGet(req, param.Name))
      [] param.In = "header" -> Got(HeaderGet(req, param.Name))
      [] param.In = "path" ->
             LET v == extractPathParam(req.Path, route, param.Name)
             IN  IF v = Nil THEN [kind |-> "panic", value |-> ""] ELSE Got(Deref(v))
      [] param.In = "cookie" ->
             IF param.Name \in DOMAIN req.Cookies THEN Got(req.Cookies[param.Name])
             ELSE [kind |-> "nocookie", value |-> ""]
      [] OTHER -> Got("")

\* One turn of the loop of ValidateParametersForPath: Ok lets the loop go on.
ParamOutcome(apiSpec, req, route, declared) ==
    IF declared.Schema = Nil THEN Panic
    ELSE
    LET ref == Deref(declared.Schema).Ref
        resolved == IF ref # "" THEN resolveParameterReference(apiSpec, ref)
                    ELSE Ptr(declared)
    IN  IF resolved = Nil
        THEN Err(<<"parameter reference '%s' not found", TrimParameterPrefix(ref)>>)
        ELSE
        LET param == Deref(resolved)
            found == ParamValue(req, route, param)
        IN  IF found.kind = "nocookie"
            THEN Err(<<"missing cookie parameter '%s'", param.Name>>)
            ELSE IF found.kind = "panic" THEN Panic
            ELSE IF found.value = "" /\ param.Required
                 THEN Err(<<"missing required parameter '%s'", param.Name>>)
            ELSE IF found.value = "" THEN Ok
            ELSE IF param.Schema = Nil THEN Panic
            ELSE SchemaCheck(apiSpec, Str(found.value), Deref(param.Schema),
                             <<"invalid type for parameter '%s'", param.Name>>)

\* The ends of the loop over the merged parameters: the outcome of the
\* first parameter, in the order of the turn, that is not Ok.
ValidateParametersForPath(apiSpec, req, st, route) ==
    LET pathItem == apiSpec.Paths[route]
        method == ToUpper(req.Method)
        operation == GetOperation(pathItem, method)
    IN  IF operation = Nil
        THEN {End(Err(<<"method '%s' not allowed for path '%s'", method, route>>), st)}
        ELSE
        LET parameters == mergeParameters(pathItem.Parameters,
                                          Deref(operation).Parameters)
            stops == {ParamOutcome(apiSpec, req, route, param) : param \in parameters}
                         \ {Ok}
        IN  IF stops = {} THEN {End(Ok, st)} ELSE {End(res, st) : res \in stops}

ValidateParameters(apiSpec, req, st) ==
    LET rest(s) == ValidateParametersForPath(apiSpec, req, s, s.ctx.Route)
    IN  Continue(ResolveRequestPath(apiSpec, req, st), rest)

\* json.NewDecoder(Body).Decode(&body) on the bodies of the model: Nil is
\* a decoding error (io.EOF for the empty body).
DecodeBody(body) ==
    CASE body = "{\"age\":5}" -> Ptr(Obj([age |-> Num(5)]))
      [] body = "{\"age\":\"old\"}" -> Ptr(Obj([age |-> Str("old")]))
      [] body = "5" -> Ptr(Num(5))
      [] body = "null" -> Ptr(Null)
      [] OTHER -> Nil

\* The text of the decoding error.
DecodeError(body) == IF body = "" THEN "EOF" ELSE "invalid character"

\* A plausible slip: the content type is looked up before the required
\* body is asked for.
BodyCheckContentTypeFirst(apiSpec, req, st) ==
    LET requestBody == Deref(st.ctx.Operation).RequestBody
        given == HeaderGet(req, "Content-Type")
        contentType == IF given = "" THEN "application/json" ELSE given
    IN  IF requestBody = Nil THEN {End(Ok, st)}
        ELSE IF contentType \notin DOMAIN Deref(requestBody).Content
             THEN {End(Err(<<"unsupported content type '%s'", contentType>>), st)}
        ELSE IF Deref(requestBody).Required /\ req.ContentLength = 0
             THEN {End(Err(<<"request body is required">>), st)}
        ELSE IF Deref(requestBody).Content[contentType].Schema = Nil THEN {End(Ok, st)}
        ELSE IF DecodeBody(req.Body) = Nil
             THEN {End(Err(<<"invalid request body: %v", DecodeError(req.Body)>>), st)}
        ELSE {End(SchemaCheck(apiSpec, Deref(DecodeBody(req.Body)),
                              Deref(Deref(requestBody).Content[contentType].Schema),
                              <<"request body does not match schema">>), st)}

BodyCheck(apiSpec, req, st) ==
    LET requestBody == Deref(st.ctx.Operation).RequestBody
        given == HeaderGet(req, "Content-Type")
        contentType == IF given = "" THEN "application/json" ELSE given
    IN  IF requestBody = Nil THEN {End(Ok, st)}
        ELSE IF Deref(requestBody).Required /\ req.ContentLength = 0
             THEN {End(Err(<<"request body is required">>), st)}
        ELSE IF contentType \notin DOMAIN Deref(requestBody).Content
             THEN {End(Err(<<"unsupported content type '%s'", contentType>>), st)}
        ELSE IF Deref(requestBody).Content[contentType].Schema = Nil THEN {End(Ok, st)}
        ELSE IF DecodeBody(req.Body) = Nil
             THEN {End(Err(<<"invalid request body: %v", DecodeError(req.Body)>>), st)}
        ELSE {End(SchemaCheck(apiSpec, Deref(DecodeBody(req.Body)),
                              Deref(Deref(requestBody).Content[contentType].Schema),
                              <<"request body does not match schema">>), st)}

\* The context is complete when the route, the path item and the operation
\* are set.
ContextComplete(ctx) ==
    ~(ctx.PathItem = Nil \/ ctx.Route = NoRoute \/ ctx.Operation = Nil)

ValidateRequestBody(apiSpec, req, st) ==
    LET rest(s) == BodyCheck(apiSpec, req, s)
    IN  IF ContextComplete(st.ctx) THEN rest(st)
        ELSE Continue(ValidateRequestMethod(apiSpec, req, st), rest)

\* What may follow a scheme word in an Authorization header of the model.
Credentials == {"", "tok", " "}

\* strings.HasPrefix and strings.TrimPrefix on the Authorization headers of
\* the model; strings.TrimSpace on what is left.
HasPrefix(str, prefix) == \E rest \in Credentials : str = prefix \o rest
TrimPrefix(str, prefix) ==
    IF HasPrefix(str, prefix) THEN CHOOSE rest \in Credentials : str = prefix \o rest
    ELSE str
TrimSpace(str) == IF str = " " THEN "" ELSE str

CookieGet(req, name) == IF name \in DOMAIN req.Cookies THEN req.Cookies[name] ELSE ""

validateAPIKeySecurity(req, secScheme) ==
    LET value == CASE secScheme.In = "header" -> HeaderGet(req, secScheme.Name)
                   [] secScheme.In = "query" -> QueryGet(req, secScheme.Name)
                   [] secScheme.In = "cookie" -> CookieGet(req, secScheme.Name)
                   [] OTHER -> ""
    IN  value # ""

validateHTTPSecurity(req, secScheme) ==
    LET authHeader == HeaderGet(req, "Authorization")
        scheme == ToLower(secScheme.Scheme)
    IN  IF authHeader = "" THEN FALSE
        ELSE CASE scheme = "basic" -> HasPrefix(authHeader, "Basic ")
               [] scheme = "bearer" -> HasPrefix(authHeader, "Bearer ")
               [] scheme = "digest" -> HasPrefix(authHeader, "Digest ")
               [] scheme = "apikey" -> HasPrefix(authHeader, "ApiKey ")
               [] OTHER -> FALSE

validateOAuth2Security(req) ==
    LET authHeader == HeaderGet(req, "Authorization")
    IN  IF authHeader = "" \/ ~HasPrefix(authHeader, "Bearer ") THEN FALSE
        ELSE TrimSpace(TrimPrefix(authHeader, "Bearer ")) # ""

validateOpenIdConnectSecurity(req) ==
    LET authHeader == HeaderGet(req, "Authorization")
        idToken == IF authHeader # "" /\ HasPrefix(authHeader, "Bearer ")
                   THEN TrimSpace(TrimPrefix(authHeader, "Bearer "))
                   ELSE QueryGet(req, "id_token")
    IN  idToken # ""

\* One scheme of a requirement.
SchemeSatisfied(apiSpec, req, secSchemeName) ==
    /\ secSchemeName \in DOMAIN apiSpec.Components.SecuritySchemes
    /\ LET secScheme == apiSpec.Components.SecuritySchemes[secSchemeName]
       IN  CASE secScheme.Type = "apiKey" -> validateAPIKeySecurity(req, secScheme)
             [] secScheme.Type = "http" -> validateHTTPSecurity(req, secScheme)
             [] secScheme.Type = "oauth2" -> validateOAuth2Security(req)
             [] secScheme.Type = "openIdConnect" -> validateOpenIdConnectSecurity(req)
             [] OTHER -> FALSE

\* A plausible slip: one satisfied scheme is enough for the requirement.
validateSecurityRequirementAnyScheme(apiSpec, req, secReq) ==
    \E secSchemeName \in DOMAIN secReq : SchemeSatisfied(apiSpec, req, secSchemeName)

\* The loop returns false at the first scheme that fails, so whatever the
\* order of the map, it returns true exactly when no scheme fails.
validateSecurityRequirement(apiSpec, req, secReq) ==
    \A secSchemeName \in DOMAIN secReq : SchemeSatisfied(apiSpec, req, secSchemeName)

SecurityCheck(apiSpec, req, st) ==
    LET own == Deref(st.ctx.Operation).Security
        securityRequirements == IF own = Nil THEN apiSpec.Security ELSE Deref(own)
    IN  IF Len(securityRequirements) = 0 THEN {End(Ok, st)}
        ELSE IF \E i \in DOMAIN securityRequirements :
                    validateSecurityRequirement(apiSpec, req, securityRequirements[i])
             THEN {End(Ok, st)}
        ELSE {End(Err(<<"request does not satisfy any security requirements">>), st)}

ValidateSecurity(apiSpec, req, st) ==
    LET rest(s) == SecurityCheck(apiSpec, req, s)
    IN  IF ContextComplete(st.ctx) THEN rest(st)
        ELSE Continue(ValidateRequestMethod(apiSpec, req, st), rest)

-----------------------------------------------------------------------------
(* ValidateRequest, one step per stage.                                    *)

Methods == {"GET", "POST", "DELETE", "PUT", "get"}
RequestPaths ==
    {<<"pets">>, <<"pets", "5">>, <<"pets", "abc">>, <<"pets", "mine">>,
     <<"dogs", "mine">>, <<"pets", "">>, <<"pets", "{petId}">>, <<"owners">>}
Queries == {<<>>, [limit |-> "5"], [limit |-> "abc"]}
Authorizations == {"", "Bearer tok", "bearer tok"}
ApiKeys == {"", "key"}
ContentTypes == {"", "application/json", "text/plain"}
Bodies == {"", "{\"age\":5}", "{\"age\":\"old\"}", "{bad"}

Request(method, path, query, authorization, apiKey, contentType, body) ==
    [Method |-> method, Path |-> path, Query |-> query,
     Header |-> ("Authorization" :> authorization) @@ ("X-Api-Key" :> apiKey)
                    @@ ("Content-Type" :> contentType),
     Cookies |-> <<>>, Body |-> body, ContentLength |-> Len(body)]

Requests ==
    {Request(method, path, query, authorization, apiKey, contentType, body) :
        method \in Methods, path \in RequestPaths, query \in Queries,
        authorization \in Authorizations, apiKey \in ApiKeys,
        contentType \in ContentTypes, body \in Bodies}

\* The stage ValidateRequest runs once stage has passed; "return" after the
\* last one.
StageAfterBodyBeforeParameters(stage) ==
    CASE stage = "path" -> "method"
      [] stage = "method" -> "body"
      [] stage = "body" -> "params"
      [] stage = "params" -> "security"
      [] stage = "security" -> "return"

StageAfter(stage) ==
    CASE stage = "path" -> "method"
      [] stage = "method" -> "params"
      [] stage = "params" -> "body"
      [] stage = "body" -> "security"
      [] stage = "security" -> "return"

PipelineInit ==
    /\ pl_pc = "enter"
    /\ pl_apiSpec \in {Nil, Ptr(PetApi)}
    /\ pl_req \in Requests
    /\ pl_st = [ctx |-> NewContext,
                hits |-> [route \in DOMAIN PetApi.Paths |-> 0],
                resolves |-> 0]
    /\ pl_log = <<>>
    /\ pl_result = <<>>
    /\ SchemaIdle /\ StoreIdle /\ ConcurrentIdle /\ HelperIdle
    /\ MiddlewareIdle /\ CacheIdle

\* if v.apiSpec == nil { return false, ... }
EnterValidateRequest ==
    /\ pl_pc = "enter"
    /\ IF pl_apiSpec = Nil
       THEN /\ pl_pc' = "done"
            /\ pl_result' = Err(<<"no API spec selected, call SetCurrentAPI first">>)
       ELSE /\ pl_pc' = "path"
            /\ UNCHANGED pl_result
    /\ UNCHANGED <<pl_apiSpec, pl_req, pl_st, pl_log, svVars, stVars, ccVars, fnVars, mwVars, bcVars>>

\* if ok, err := v.Stage(req); !ok { return false, err }
RunStage(stage, ends) ==
    /\ pl_pc = stage
    /\ \E e \in ends :
           /\ pl_st' = e.st
           /\ pl_log' = Append(pl_log, [stage |-> stage, res |-> e.res])
           /\ IF e.res.kind # "ok"
              THEN pl_pc' = "done" /\ pl_result' = e.res
              ELSE IF StageAfter(stage) = "return"
                   THEN pl_pc' = "done" /\ pl_result' = Ok
                   ELSE pl_pc' = StageAfter(stage) /\ UNCHANGED pl_result
    /\ UNCHANGED <<pl_apiSpec, pl_req, svVars, stVars, ccVars, fnVars, mwVars, bcVars>>

StagePath == RunStage("path", ValidateRequestPath(Deref(pl_apiSpec), pl_req, pl_st))
StageMethod == RunStage("method", ValidateRequestMethod(Deref(pl_apiSpec), pl_req, pl_st))
StageParameters == RunStage("params", ValidateParameters(Deref(pl_apiSpec), pl_req, pl_st))
StageBody == RunStage("body", ValidateRequestBody(Deref(pl_apiSpec), pl_req, pl_st))
StageSecurity == RunStage("security", ValidateSecurity(Deref(pl_apiSpec), pl_req, pl_st))

PipelineNext ==
    \/ EnterValidateRequest
    \/ StagePath
    \/ StageMethod
    \/ StageParameters
    \/ StageBody
    \/ StageSecurity

SpecPipeline == PipelineInit /\ [][PipelineNext]_vars

-----------------------------------------------------------------------------
(* Properties of ValidateRequest.                                          *)

\* The request validation has returned for a selected specification.
Returns == pl_pc = "done" /\ pl_apiSpec # Nil

\* Some end of the parameter checks, resp. of the body checks, of the
\* resolved operation is a failure, whatever the other stages say.
ParametersInvalid ==
    /\ pl_st.ctx.Route # NoRoute
    /\ \A e \in ValidateParametersForPath(PetApi, pl_req, pl_st, pl_st.ctx.Route) :
           e.res.kind = "err"
BodyInvalid ==
    /\ pl_st.ctx.Operation # Nil
    /\ \A e \in BodyCheck(PetApi, pl_req, pl_st) : e.res.kind = "err"
SecurityInvalid ==
    /\ pl_st.ctx.Operation # Nil
    /\ \A e \in SecurityCheck(PetApi, pl_req, pl_st) : e.res.kind = "err"
MethodNotAllowed ==
    /\ pl_st.ctx.Route # NoRoute
    /\ ToUpper(pl_req.Method) \notin DOMAIN PetApi.Paths[pl_st.ctx.Route].Ops

ParameterErrors ==
    {"parameter reference '%s' not found", "missing cookie parameter '%s'",
     "missing required parameter '%s'", "invalid type for parameter '%s'"}

\* C1: ValidateRequest runs the stages route, method, parameters, body,
\* security in this order, runs no stage after one that failed, accepts
\* exactly when all five passed and else returns the error of the stage
\* that failed; so a method that is not allowed is reported although the
\* resolved route is known, and an invalid parameter is reported rather
\* than an invalid body.
C1_StagesInOrder ==
    LET n == Len(pl_log)
        order == <<"path", "method", "params", "body", "security">>
    IN  /\ n <= 5
        /\ \A i \in 1..n : pl_log[i].stage = order[i]
        /\ \A i \in 1..n : i < n => pl_log[i].res.kind = "ok"
        /\ Returns =>
               /\ n >= 1
               /\ pl_result.kind = "ok" <=> (n = 5 /\ pl_log[n].res.kind = "ok")
               /\ pl_result.kind # "ok" => pl_result = pl_log[n].res
               /\ MethodNotAllowed =>
                      /\ pl_log[n].stage = "method"
                      /\ pl_result.err[1] = "method '%s' not allowed for path '%s'"
               /\ (~MethodNotAllowed /\ ParametersInvalid) =>
                      /\ pl_log[n].stage = "params"
                      /\ pl_result.kind = "err" /\ pl_result.err[1] \in ParameterErrors
               /\ (~MethodNotAllowed /\ ~ParametersInvalid /\ BodyInvalid
                       /\ SecurityInvalid) =>
                      pl_log[n].stage = "body"

\* A request with an invalid parameter and an invalid body has returned the
\* parameter error, and the body stage has not run.
C1_Witness ==
    /\ Returns
    /\ ParametersInvalid /\ BodyInvalid
    /\ pl_result.kind = "err" /\ pl_result.err[1] \in ParameterErrors
    /\ Len(pl_log) = 3

\* C2: one call of ValidateRequest resolves the route at most once.
C2_ResolvedAtMostOnce == pl_st = <<>> \/ pl_st.resolves <= 1

\* C3: when the request path is a key of the route map, route resolution
\* returns that entry, even if templates match the path too; a template is
\* returned only for a path that is not a key and that it matches.
C3_ExactMatchPreferred ==
    (Len(pl_log) >= 1 /\ pl_log[1].res.kind = "ok") =>
        LET route == pl_st.ctx.Route
        IN  /\ pl_req.Path \in DOMAIN PetApi.Paths => route = pl_req.Path
            /\ route # pl_req.Path =>
                   /\ pl_req.Path \notin DOMAIN PetApi.Paths
                   /\ HasCompiledRegex(route) /\ RegexMatch(route, pl_req.Path)

\* The path stage has resolved a literal path that two templates match too.
C3_Witness ==
    /\ Len(pl_log) >= 1 /\ pl_log[1].res.kind = "ok"
    /\ pl_st.ctx.Route = pl_req.Path
    /\ Cardinality({route \in DOMAIN PetApi.Paths :
                       /\ route # pl_req.Path
                       /\ HasCompiledRegex(route)
                       /\ RegexMatch(route, pl_req.Path)}) >= 2

-----------------------------------------------------------------------------
(* One stage called on its own, as the Validator interface allows, on a    *)
(* request whose context is still empty.  The specification is drawn from  *)
(* families that vary what the stage reads.                                *)

\* Longest parameter list of a path item or of an operation.
MaxParams == 2
\* Largest numerator of the numbers given to validateNumber.
MaxNum == 4

\* Longest list of security requirements, largest requirement.
MaxRequirements == 2
MaxSchemes == 2

AllSecuritySchemes ==
    [bearerAuth |-> [Type |-> "http", Scheme |-> "bearer", In |-> "", Name |-> ""],
     basicAuth |-> [Type |-> "http", Scheme |-> "Basic", In |-> "", Name |-> ""],
     digestAuth |-> [Type |-> "http", Scheme |-> "digest", In |-> "", Name |-> ""],
     apikeyHttp |-> [Type |-> "http", Scheme |-> "apikey", In |-> "", Name |-> ""],
     negotiate |-> [Type |-> "http", Scheme |-> "negotiate", In |-> "", Name |-> ""],
     apiKeyAuth |-> [Type |-> "apiKey", Scheme |-> "", In |-> "header",
                     Name |-> "X-Api-Key"],
     oauth |-> [Type |-> "oauth2", Scheme |-> "", In |-> "", Name |-> ""],
     openId |-> [Type |-> "openIdConnect", Scheme |-> "", In |-> "", Name |-> ""],
     mutual |-> [Type |-> "mutualTLS", Scheme |-> "", In |-> "", Name |-> ""]]

\* A requirement names schemes, each with its scopes; "ghost" is not defined.
CoreSchemeNames == {"bearerAuth", "apiKeyAuth", "ghost"}
Requirement(names) == [name \in names |-> <<>>]
CoreRequirements ==
    {Requirement(names) : names \in {ns \in SUBSET CoreSchemeNames :
                                        Cardinality(ns) <= MaxSchemes}}
RequirementLists ==
    UNION {[1..n -> CoreRequirements] : n \in 0..MaxRequirements}
        \cup {<<Requirement({name})>> : name \in DOMAIN AllSecuritySchemes}
GlobalLists ==
    {<<>>, <<Requirement({"bearerAuth"})>>,
     <<Requirement({"apiKeyAuth", "bearerAuth"})>>}

\* GET /pets with the given security lists and nothing else to validate.
SecurityApi(global, own) ==
    [Paths |-> (<<"pets">> :>
                   [Parameters |-> <<>>,
                    Ops |-> [GET |-> Operation(<<>>, Nil, own)]]),
     Components |-> [Schemas |-> SchemaStore,
                     Parameters |-> <<>>,
                     SecuritySchemes |-> AllSecuritySchemes],
     Security |-> global]

SecurityApis ==
    {SecurityApi(global, own) :
        global \in GlobalLists,
        own \in {Nil} \cup {Ptr(list) : list \in RequirementLists}}

SecurityRequests ==
    {Request("GET", <<"pets">>, query, authorization, apiKey, "", "") :
        query \in {<<>>, [id_token |-> "tok"]},
        authorization \in {"", "Bearer tok", "bearer tok", "Basic tok",
                           "Digest tok", "ApiKey tok", "Bearer "},
        apiKey \in ApiKeys}

\* The parameters an operation of the parameter family may declare.
SessionParam(required) == Param("session", "cookie", required, Ptr(TypeOf("string")))
ParamDecls ==
    {PetIdParam,
     Param("limit", "query", FALSE, Ptr(TypeOf("integer"))),
     Param("limit", "query", TRUE, Ptr(TypeOf("integer"))),
     Param("X-Api-Key", "header", TRUE, Ptr(TypeOf("string"))),
     SessionParam(FALSE), SessionParam(TRUE),
     Param("page", "query", FALSE,
           Ptr([EmptySchema EXCEPT !.Ref = ParameterPrefix \o "Limit"]))}
ParamDeclLists == UNION {[1..n -> ParamDecls] : n \in 0..MaxParams}

\* GET /pets/{petId} with the given parameter lists.
ParamApi(pathParams, opParams) ==
    [Paths |-> (<<"pets", "{petId}">> :>
                   [Parameters |-> pathParams,
                    Ops |-> [GET |-> Operation(opParams, Nil, Ptr(<<>>))]]),
     Components |-> [Schemas |-> SchemaStore,
                     Parameters |-> [Limit |-> LimitParam],
                     SecuritySchemes |-> AllSecuritySchemes],
     Security |-> <<>>]

ParamApis ==
    {ParamApi(pathParams, opParams) :
        pathParams \in {<<>>, <<Param("limit", "query", TRUE, Ptr(TypeOf("integer")))>>},
        opParams \in ParamDeclLists}

\* A parameter declared only through a reference to the component-parameter
\* store, as the test "component parameters" declares it: no name, no
\* location, a schema that holds the reference.
RefParam(name) ==
    Param("", "", FALSE, Ptr([EmptySchema EXCEPT !.Ref = ParameterPrefix \o name]))
OffsetParam == Param("offset", "query", TRUE, Ptr(TypeOf("integer")))
RefParamDecls == {RefParam("Limit"), RefParam("Offset"), PetIdParam}
RefParamApi(opParams) ==
    [ParamApi(<<>>, opParams)
        EXCEPT !.Components.Parameters = [Limit |-> LimitParam, Offset |-> OffsetParam]]
RefParamApis ==
    {RefParamApi(opParams) :
        opParams \in UNION {[1..n -> RefParamDecls] : n \in 0..MaxParams}}
RefParamRequests ==
    {Request("GET", <<"pets", "5">>, query, "", "", "", "") :
        query \in {<<>>, [limit |-> "abc"], [offset |-> "10"],
                   [limit |-> "abc", offset |-> "10"],
                   [limit |-> "10", offset |-> "10"]}}

ParamRequests ==
    {[Request("GET", <<"pets", petId>>, query, "", apiKey, "", "")
         EXCEPT !.Cookies = cookies] :
        petId \in {"5", "abc"},
        query \in {<<>>, [limit |-> ""], [limit |-> "10"], [limit |-> "abc"]},
        apiKey \in ApiKeys,
        cookies \in {<<>>, [session |-> "s"]}}

\* The request bodies an operation of the body family may declare.
BodySchemas == {Nil, Ptr(RefTo("PetByAge")), Ptr(TypeOf("integer"))}
ContentMaps ==
    {<<>>}
    \cup {("application/json" :> [Schema |-> schema]) : schema \in BodySchemas}
    \cup {("text/plain" :> [Schema |-> schema]) : schema \in BodySchemas}
    \cup {("application/json" :> [Schema |-> schema])
              @@ ("text/plain" :> [Schema |-> Nil]) : schema \in BodySchemas}
RequestBodies ==
    {Nil} \cup {Ptr([Required |-> required, Content |-> content]) :
                   required \in BOOLEAN, content \in ContentMaps}

\* POST /pets with the given request body.
BodyApi(requestBody) ==
    [Paths |-> (<<"pets">> :>
                   [Parameters |-> <<>>,
                    Ops |-> [POST |-> Operation(<<>>, requestBody, Ptr(<<>>))]]),
     Components |-> [Schemas |-> SchemaStore,
                     Parameters |-> <<>>,
                     SecuritySchemes |-> AllSecuritySchemes],
     Security |-> <<>>]

BodyApis == {BodyApi(requestBody) : requestBody \in RequestBodies}

\* The content length is what the client declares: 0, unknown (-1) or
\* positive.
BodyRequests ==
    {[Request(method, <<"pets">>, <<>>, "", "", contentType, body)
         EXCEPT !.ContentLength = contentLength] :
        method \in {"POST", "GET"},
        contentType \in ContentTypes \cup {"application/json; charset=utf-8"},
        body \in Bodies \cup {"5"},
        contentLength \in {0, -1, 9}}

\* Specifications LoadAPI accepts whose operation GET /pets/{petId} declares
\* one more parameter: an array without items, a number with a multipleOf
\* between 0 and 1, a parameter without schema, or none of these.
EdgeParams ==
    {Param("tags", "query", FALSE, Ptr(TypeOf("array"))),
     Param("step", "query", FALSE,
           Ptr([TypeOf("number") EXCEPT !.MultipleOf = Ptr(Frac(1, 2))])),
     Param("debug", "query", FALSE, Nil),
     LimitParam}
EdgeApis ==
    {ParamApi(<<PetIdParam>>, opParams) :
        opParams \in {<<>>} \cup {<<param>> : param \in EdgeParams}}
EdgeRequests ==
    {Request(method, <<"pets", petId>>, query, "", "", "", "") :
        method \in {"GET", "POST"},
        petId \in {"5", "abc"},
        query \in {<<>>, [tags |-> "abc"], [tags |-> "[]"], [step |-> "5"],
                   [debug |-> "5"], [limit |-> "5"]}}

MethodRequests ==
    {Request(method, path, <<>>, "", "", "", "") :
        method \in Methods, path \in RequestPaths}

StageCases ==
    {<<"security", api, req>> : api \in SecurityApis, req \in SecurityRequests}
    \cup {<<"params", api, req>> : api \in ParamApis, req \in ParamRequests}
    \cup {<<"params", api, req>> : api \in RefParamApis, req \in RefParamRequests}
    \cup {<<"body", api, req>> : api \in BodyApis, req \in BodyRequests}
    \cup {<<"method", PetApi, req>> : req \in MethodRequests}
    \cup {<<"request", api, req>> : api \in EdgeApis, req \in EdgeRequests}

StageInit ==
    /\ pl_pc = "call"
    /\ \E case \in StageCases :
           /\ pl_log = <<[stage |-> case[1], res |-> <<>>]>>
           /\ pl_apiSpec = Ptr(case[2])
           /\ pl_req = case[3]
           /\ pl_st = [ctx |-> NewContext,
                       hits |-> [route \in DOMAIN case[2].Paths |-> 0],
                       resolves |-> 0]
    /\ pl_result = <<>>
    /\ SchemaIdle /\ StoreIdle /\ ConcurrentIdle /\ HelperIdle
    /\ MiddlewareIdle /\ CacheIdle

\* The call of one stage: its result and the context it leaves.
CallStage(stage, ends) ==
    /\ pl_pc = "call" /\ pl_log[1].stage = stage
    /\ \E e \in ends :
           /\ pl_st' = e.st
           /\ pl_result' = e.res
           /\ pl_log' = <<[stage |-> stage, res |-> e.res]>>
    /\ pl_pc' = "done"
    /\ UNCHANGED <<pl_apiSpec, pl_req, svVars, stVars, ccVars, fnVars, mwVars, bcVars>>

CallValidateSecurity ==
    CallStage("security", ValidateSecurity(Deref(pl_apiSpec), pl_req, pl_st))

CallValidateParameters ==
    CallStage("params", ValidateParameters(Deref(pl_apiSpec), pl_req, pl_st))

CallValidateRequestBody ==
    CallStage("body", ValidateRequestBody(Deref(pl_apiSpec), pl_req, pl_st))

CallValidateRequestMethod ==
    CallStage("method", ValidateRequestMethod(Deref(pl_apiSpec), pl_req, pl_st))

\* ValidateRequest on a selected specification: the five stages in order,
\* each run only when the one before passed.
ValidateRequest(apiSpec, req, st) ==
    LET security(s) == ValidateSecurity(apiSpec, req, s)
        body(s) == Continue(ValidateRequestBody(apiSpec, req, s), security)
        params(s) == Continue(ValidateParameters(apiSpec, req, s), body)
        method(s) == Continue(ValidateRequestMethod(apiSpec, req, s), params)
    IN  Continue(ValidateRequestPath(apiSpec, req, st), method)

CallValidateRequest ==
    CallStage("request", ValidateRequest(Deref(pl_apiSpec), pl_req, pl_st))

StageNext ==
    \/ CallValidateSecurity
    \/ CallValidateParameters
    \/ CallValidateRequestBody
    \/ CallValidateRequestMethod
    \/ CallValidateRequest

SpecStage == StageInit /\ [][StageNext]_vars

-----------------------------------------------------------------------------
(* Properties of the stages called on their own.                           *)

Called(stage) == pl_pc = "done" /\ pl_log # <<>> /\ pl_log[1].stage = stage

\* The operation the request addresses, when its path is a declared route.
AddressedOperation ==
    Deref(pl_apiSpec).Paths[pl_req.Path].Ops[ToUpper(pl_req.Method)]

\* The operation's list, or the global list when the operation declares none.
EffectiveRequirements ==
    IF AddressedOperation.Security = Nil THEN Deref(pl_apiSpec).Security
    ELSE Deref(AddressedOperation.Security)

\* Every scheme the requirement names is defined and satisfied.
RequirementHolds(secReq) ==
    \A name \in DOMAIN secReq : SchemeSatisfied(Deref(pl_apiSpec), pl_req, name)

\* C12: ValidateSecurity passes iff the effective requirement list is empty
\* or one of its requirements has all its schemes defined and satisfied,
\* and otherwise fails with "request does not satisfy any security
\* requirements".
C12_SecurityAnyOfAll ==
    Called("security") =>
        IF \/ Len(EffectiveRequirements) = 0
           \/ \E i \in DOMAIN EffectiveRequirements :
                  RequirementHolds(EffectiveRequirements[i])
        THEN pl_result = Ok
        ELSE pl_result = Err(<<"request does not satisfy any security requirements">>)

\* The first requirement names two schemes and only one of them is
\* satisfied; the second requirement is satisfied, and the request passes.
C12_Witness ==
    /\ Called("security")
    /\ Len(EffectiveRequirements) = 2
    /\ Cardinality(DOMAIN EffectiveRequirements[1]) = 2
    /\ \E name \in DOMAIN EffectiveRequirements[1] :
           SchemeSatisfied(Deref(pl_apiSpec), pl_req, name)
    /\ ~RequirementHolds(EffectiveRequirements[1])
    /\ DOMAIN EffectiveRequirements[2] # {}
    /\ RequirementHolds(EffectiveRequirements[2])
    /\ pl_result = Ok

HttpSchemeWords == {"basic", "bearer", "digest", "apikey"}

\* C13: an operation protected by one http scheme (basic, bearer, digest or
\* apikey) accepts the request iff it has an Authorization header that
\* starts, whatever the case of its letters, with the scheme word and a
\* space.
C13_HttpSchemeCaseInsensitive ==
    (/\ Called("security")
     /\ Len(EffectiveRequirements) = 1
     /\ \E name \in DOMAIN AllSecuritySchemes :
            /\ DOMAIN EffectiveRequirements[1] = {name}
            /\ AllSecuritySchemes[name].Type = "http"
            /\ ToLower(AllSecuritySchemes[name].Scheme) \in HttpSchemeWords) =>
        LET name == CHOOSE n \in DOMAIN EffectiveRequirements[1] : TRUE
            word == ToLower(AllSecuritySchemes[name].Scheme)
            authHeader == HeaderGet(pl_req, "Authorization")
        IN  pl_result = Ok <=>
                (authHeader # "" /\ HasPrefix(ToLower(authHeader), word \o " "))

-----------------------------------------------------------------------------
(* The helpers of the parameter stage, called on their own.                *)

MergeParams ==
    {Param(key[2], key[1], required, Ptr(TypeOf("string"))) :
        key \in {<<"query", "id">>, <<"query", "limit">>, <<"path", "id">>},
        required \in BOOLEAN}
ParamLists == UNION {[1..n -> MergeParams] : n \in 0..MaxParams}

ExtractRoutes ==
    {<<"pet", "{petId}", "owner", "{ownerId}">>, <<"pets", "{petId}">>,
     <<"{kind}", "mine">>, <<"report.{format}">>, <<"pets">>}
ExtractPaths ==
    {<<"pet", "123", "owner", "456">>, <<"pets", "5">>, <<"pets", "mine">>,
     <<"report.json">>, <<"pets">>, <<"pet", "123">>}
ExtractNames == {"petId", "ownerId", "kind", "format", "limit"}

\* The numbers p / q with |p| <= MaxNum that a value or a multipleOf may be.
NumberValues == {Frac(p, q) : p \in (0 - MaxNum)..MaxNum, q \in {1, 2}}
Multiples == {Frac(p, q) : p \in 1..MaxNum, q \in {1, 2, 3}}
NumberSchemas ==
    {[TypeOf(t) EXCEPT !.MultipleOf = multipleOf, !.Minimum = minimum,
                       !.Maximum = maximum] :
        t \in {"integer", "number"},
        multipleOf \in {Nil} \cup {Ptr(m) : m \in Multiples},
        minimum \in {Nil, Ptr(Num(0))},
        maximum \in {Nil, Ptr(Num(3))}}

HelperCalls ==
    {[helper |-> "mergeParameters", pathParams |-> pathParams, opParams |-> opParams] :
        pathParams \in ParamLists, opParams \in ParamLists}
    \cup
    {[helper |-> "validateNumber", value |-> value, schema |-> schema] :
        value \in NumberValues, schema \in NumberSchemas}
    \cup
    {[helper |-> "extractPathParam", requestPath |-> path, route |-> route,
      paramName |-> name] :
        path \in ExtractPaths, route \in ExtractRoutes, name \in ExtractNames}

HelperInit ==
    /\ fn_pc = "call"
    /\ fn_call \in HelperCalls
    /\ fn_result = <<>>
    /\ SchemaIdle /\ PipelineIdle /\ StoreIdle /\ ConcurrentIdle
    /\ MiddlewareIdle /\ CacheIdle

CallMergeParameters ==
    /\ fn_pc = "call" /\ fn_call.helper = "mergeParameters"
    /\ fn_result' = mergeParameters(fn_call.pathParams, fn_call.opParams)
    /\ fn_pc' = "done"
    /\ UNCHANGED <<fn_call, svVars, plVars, stVars, ccVars, mwVars, bcVars>>

CallExtractPathParam ==
    /\ fn_pc = "call" /\ fn_call.helper = "extractPathParam"
    /\ fn_result' = extractPathParam(fn_call.requestPath, fn_call.route,
                                     fn_call.paramName)
    /\ fn_pc' = "done"
    /\ UNCHANGED <<fn_call, svVars, plVars, stVars, ccVars, mwVars, bcVars>>

CallValidateNumber ==
    /\ fn_pc = "call" /\ fn_call.helper = "validateNumber"
    /\ fn_result' = validateNumber(fn_call.value, fn_call.schema)
    /\ fn_pc' = "done"
    /\ UNCHANGED <<fn_call, svVars, plVars, stVars, ccVars, mwVars, bcVars>>

HelperNext ==
    \/ CallMergeParameters
    \/ CallExtractPathParam
    \/ CallValidateNumber

SpecHelpers == HelperInit /\ [][HelperNext]_vars

HelperReturned(helper) == fn_pc = "done" /\ fn_call.helper = helper

ParamKey(param) == <<param.In, param.Name>>
KeysOf(params) == {ParamKey(params[i]) : i \in DOMAIN params}

\* C14: mergeParameters returns one definition for every (location, name)
\* declared at path-item or operation level and nothing else: the
\* operation's definition for a pair the operation declares, else the
\* path item's.
C14_MergeByLocationAndName ==
    HelperReturned("mergeParameters") =>
        LET pathParams == fn_call.pathParams
            opParams == fn_call.opParams
        IN  /\ \A param \in fn_result :
                   ParamKey(param) \in KeysOf(pathParams) \cup KeysOf(opParams)
            /\ \A key \in KeysOf(pathParams) \cup KeysOf(opParams) :
                   LET got == {param \in fn_result : ParamKey(param) = key}
                   IN  /\ Cardinality(got) = 1
                       /\ IF key \in KeysOf(opParams)
                          THEN got \subseteq SeqToSet(opParams)
                          ELSE got \subseteq SeqToSet(pathParams)

\* One pair is declared at both levels with different definitions, another
\* at path-item level only, a third at operation level only.
C14_Witness ==
    /\ HelperReturned("mergeParameters")
    /\ \E i \in DOMAIN fn_call.pathParams, j \in DOMAIN fn_call.opParams :
           /\ ParamKey(fn_call.pathParams[i]) = ParamKey(fn_call.opParams[j])
           /\ fn_call.pathParams[i] # fn_call.opParams[j]
           /\ fn_call.opParams[j] \in fn_result
           /\ fn_call.pathParams[i] \notin fn_result
    /\ KeysOf(fn_call.pathParams) \ KeysOf(fn_call.opParams) # {}
    /\ KeysOf(fn_call.opParams) \ KeysOf(fn_call.pathParams) # {}
    /\ Cardinality(fn_result) = 3

\* The placeholder names a segment of a template holds.
NamesIn(part) ==
    CASE part \in Placeholders -> {PlaceholderName(part)}
      [] part = "report.{format}" -> {"format"}
      [] OTHER -> {}

\* C15: for a request path the matcher of the route accepts and a
\* placeholder of the route, extractPathParam returns the segment of the
\* request path at the position of the placeholder, and reads no position
\* the path does not have.
C15_ExtractsSegmentOfPlaceholder ==
    (HelperReturned("extractPathParam")
         /\ RegexMatch(fn_call.route, fn_call.requestPath)) =>
        /\ fn_result # Nil
        /\ \A i \in DOMAIN fn_call.route :
               fn_call.paramName \in NamesIn(fn_call.route[i]) =>
                   fn_result = Ptr(fn_call.requestPath[i])

\* The operation and the parameters of a call of the parameter family.
ParamOperation == Deref(pl_apiSpec).Paths[pl_st.ctx.Route].Ops.GET
ParamPathItem == Deref(pl_apiSpec).Paths[pl_st.ctx.Route]

\* The definition in force for a declared parameter: the component
\* parameter its schema refers to, else the declaration itself.
InForce(declared) ==
    LET ref == Deref(declared.Schema).Ref
        resolved == resolveParameterReference(Deref(pl_apiSpec), ref)
    IN  IF ref # "" /\ resolved # Nil THEN Deref(resolved) ELSE declared

\* The value of the parameter in the request, empty when it is absent.
ExtractedValue(param) ==
    CASE param.In = "query" -> QueryGet(pl_req, param.Name)
      [] param.In = "header" -> HeaderGet(pl_req, param.Name)
      [] param.In = "cookie" -> CookieGet(pl_req, param.Name)
      [] param.In = "path" ->
             pl_req.Path[CHOOSE i \in DOMAIN pl_st.ctx.Route :
                             pl_st.ctx.Route[i] = "{" \o param.Name \o "}"]

\* What the stage owes to one parameter.
OwedOutcome(param) ==
    LET value == ExtractedValue(param)
    IN  IF value = ""
        THEN IF param.Required
             THEN Err(<<"missing required parameter '%s'", param.Name>>)
             ELSE Ok
        ELSE IF ValidateSchema(Deref(pl_apiSpec).Components.Schemas, Str(value),
                               Deref(param.Schema), MaxDepth) = "F"
             THEN Err(<<"invalid type for parameter '%s'", param.Name>>)
             ELSE Ok

\* C16: ValidateParameters passes iff no parameter of the operation fails,
\* where a parameter fails with "missing required parameter" iff it is
\* required and its value is empty, is not validated when it is optional
\* and its value is empty, and fails with "invalid type for parameter" iff
\* its non-empty value does not validate against its schema.
C16_ParameterRules ==
    Called("params") =>
        LET merged == mergeParameters(ParamPathItem.Parameters,
                                      ParamOperation.Parameters)
            failures == {OwedOutcome(InForce(declared)) : declared \in merged} \ {Ok}
        IN  /\ pl_result = Ok <=> failures = {}
            /\ pl_result # Ok => pl_result \in failures

\* C17: when parameters of the operation are invalid, the error is that of
\* the one declared first in the operation's list (operations whose path
\* item declares no parameter and whose list names no parameter twice).
C17_FirstDeclaredReported ==
    (Called("params") /\ ParamPathItem.Parameters = <<>>
         /\ Cardinality(KeysOf(ParamOperation.Parameters))
                = Len(ParamOperation.Parameters)) =>
        LET declared == ParamOperation.Parameters
            outcome(i) == ParamOutcome(Deref(pl_apiSpec), pl_req, pl_st.ctx.Route,
                                       declared[i])
            invalid == {i \in DOMAIN declared : outcome(i) # Ok}
        IN  invalid # {} =>
                pl_result = outcome(CHOOSE i \in invalid : \A j \in invalid : i <= j)

\* The formats of the errors that report an absent parameter.
MissingFormats ==
    {"missing required parameter '%s'", "missing cookie parameter '%s'"}

\* C25: an absent optional parameter never makes ValidateParameters fail,
\* whatever its location: an error "missing required parameter" or "missing
\* cookie parameter" names a parameter of the operation that is declared
\* required.
C25_OnlyRequiredReportedMissing ==
    (Called("params") /\ pl_result.kind = "err" /\ pl_result.err[1] \in MissingFormats) =>
        LET merged == mergeParameters(ParamPathItem.Parameters,
                                      ParamOperation.Parameters)
        IN  \E declared \in merged :
                /\ InForce(declared).Name = pl_result.err[2]
                /\ InForce(declared).Required

\* What does hold: outside cookies, only required parameters are reported
\* missing.
C25_OnlyRequiredReportedMissingOutsideCookies ==
    (Called("params") /\ pl_result.kind = "err"
         /\ pl_result.err[1] = "missing required parameter '%s'") =>
        LET merged == mergeParameters(ParamPathItem.Parameters,
                                      ParamOperation.Parameters)
        IN  \E declared \in merged :
                /\ InForce(declared).Name = pl_result.err[2]
                /\ InForce(declared).Required

\* The parameters declared for the operation of the call, those of the
\* path item first, each with the definition in force for it.
DeclaredInForce ==
    LET declared == ParamPathItem.Parameters \o ParamOperation.Parameters
    IN  [i \in DOMAIN declared |-> InForce(declared[i])]

\* C29: every parameter declared for the operation is validated: when the
\* parameters declared by the path item and the operation, inline or only
\* through a reference to the component-parameter store, are distinct, a
\* request that violates one of them is rejected.
C29_EveryDeclaredParameterChecked ==
    (Called("params")
         /\ Cardinality(KeysOf(DeclaredInForce)) = Len(DeclaredInForce)) =>
        \A i \in DOMAIN DeclaredInForce :
            OwedOutcome(DeclaredInForce[i]) # Ok => pl_result.kind # "ok"

\* What does hold: the same when the declarations themselves, before any
\* reference is followed, differ in location or name.
C29_EveryKeyedParameterChecked ==
    (Called("params")
         /\ Cardinality(KeysOf(DeclaredInForce)) = Len(DeclaredInForce)
         /\ Cardinality(KeysOf(ParamPathItem.Parameters \o ParamOperation.Parameters))
                = Len(DeclaredInForce)) =>
        \A i \in DOMAIN DeclaredInForce :
            OwedOutcome(DeclaredInForce[i]) # Ok => pl_result.kind # "ok"

\* C28: ValidateRequest is total: on every specification LoadAPI accepts
\* and every request it returns pass or fail with an error and never aborts,
\* also for a multipleOf between 0 and 1, an array schema without items and
\* a parameter without schema.
C28_ValidateRequestTotal ==
    Called("request") => pl_result.kind \in {"ok", "err"}

\* What does hold: it returns when the method is not that of the operation,
\* or when every parameter of the operation has a schema and the value of
\* each is absent, or an empty array, or checked against a schema that is
\* neither an array without items nor a number with such a multipleOf.
C28_TotalWithoutEdgeValues ==
    (Called("request")
         /\ (ToUpper(pl_req.Method) # "GET"
                \/ \A i \in DOMAIN ParamOperation.Parameters :
                       LET param == ParamOperation.Parameters[i]
                       IN  /\ param.Schema # Nil
                           /\ \/ QueryGet(pl_req, param.Name) \in {"", "[]"}
                              \/ param = LimitParam)) =>
        pl_result.kind \in {"ok", "err"}

\* The content type the body stage looks up.
LookedUpContentType ==
    IF HeaderGet(pl_req, "Content-Type") = "" THEN "application/json"
    ELSE HeaderGet(pl_req, "Content-Type")

\* C18: ValidateRequestBody decides at the first of these checks that
\* applies: no declared request body, pass; required body and content
\* length 0, "request body is required"; content type not declared,
\* "unsupported content type"; media type without schema, pass; body that
\* does not decode, "invalid request body"; schema check false, "request
\* body does not match schema"; else pass.
C18_BodyChecksInOrder ==
    (Called("body") /\ pl_st.ctx.Operation # Nil) =>
        LET requestBody == Deref(pl_st.ctx.Operation).RequestBody
            declared == Deref(requestBody)
            mediaType == declared.Content[LookedUpContentType]
            decoded == DecodeBody(pl_req.Body)
        IN  IF requestBody = Nil THEN pl_result = Ok
            ELSE IF declared.Required /\ pl_req.ContentLength = 0
                 THEN pl_result = Err(<<"request body is required">>)
            ELSE IF LookedUpContentType \notin DOMAIN declared.Content
                 THEN pl_result = Err(<<"unsupported content type '%s'",
                                        LookedUpContentType>>)
            ELSE IF mediaType.Schema = Nil THEN pl_result = Ok
            ELSE IF decoded = Nil
                 THEN /\ pl_result.kind = "err"
                      /\ pl_result.err[1] = "invalid request body: %v"
            ELSE IF ValidateSchema(Deref(pl_apiSpec).Components.Schemas, Deref(decoded),
                                   Deref(mediaType.Schema), MaxDepth) = "F"
                 THEN pl_result = Err(<<"request body does not match schema">>)
            ELSE pl_result = Ok

\* A required body is declared for another content type than the request's
\* and the request declares content length 0: the required check decides.
C18_Witness ==
    /\ Called("body") /\ pl_st.ctx.Operation # Nil
    /\ Deref(pl_st.ctx.Operation).RequestBody # Nil
    /\ Deref(Deref(pl_st.ctx.Operation).RequestBody).Required
    /\ pl_req.ContentLength = 0
    /\ LookedUpContentType
           \notin DOMAIN Deref(Deref(pl_st.ctx.Operation).RequestBody).Content
    /\ pl_result = Err(<<"request body is required">>)

\* The request has no body: content length 0 and nothing to read.
NoBody == pl_req.ContentLength = 0 /\ pl_req.Body = ""

\* C26: when the operation declares a request body that is not required
\* and the request has no body, ValidateRequestBody passes, also when the
\* media type declared for the content type of the request has a schema.
C26_AbsentOptionalBodyPasses ==
    (Called("body") /\ pl_st.ctx.Operation # Nil /\ NoBody) =>
        LET requestBody == Deref(pl_st.ctx.Operation).RequestBody
        IN  (requestBody # Nil /\ ~Deref(requestBody).Required
                 /\ LookedUpContentType \in DOMAIN Deref(requestBody).Content) =>
                pl_result = Ok

\* What does hold: it passes when the media type has no schema.
C26_AbsentOptionalBodyPassesWithoutSchema ==
    (Called("body") /\ pl_st.ctx.Operation # Nil /\ NoBody) =>
        LET requestBody == Deref(pl_st.ctx.Operation).RequestBody
        IN  (requestBody # Nil /\ ~Deref(requestBody).Required
                 /\ LookedUpContentType \in DOMAIN Deref(requestBody).Content
                 /\ Deref(requestBody).Content[LookedUpContentType].Schema = Nil) =>
                pl_result = Ok

\* C19: ValidateRequestMethod fails with "no schema found for path" when no
\* route matches; else it passes iff the resolved route declares an
\* operation for the method, which it stores in the context; else it fails
\* with "method not allowed" naming the route template and leaves the
\* operation of the context unset.
C19_MethodOfResolvedRoute ==
    Called("method") =>
        LET api == Deref(pl_apiSpec)
            method == ToUpper(pl_req.Method)
            route == pl_st.ctx.Route
        IN  IF ResolveCandidates(api.Paths, pl_req.Path) = {}
            THEN /\ pl_result = Err(<<"no schema found for path '%s'", pl_req.Path>>)
                 /\ pl_st.ctx.Operation = Nil
            ELSE /\ route \in ResolveCandidates(api.Paths, pl_req.Path)
                 /\ IF method \in DOMAIN api.Paths[route].Ops
                    THEN /\ pl_result = Ok
                         /\ pl_st.ctx.Operation = Ptr(api.Paths[route].Ops[method])
                    ELSE /\ pl_result = Err(<<"method '%s' not allowed for path '%s'",
                                              method, route>>)
                         /\ pl_st.ctx.Operation = Nil

\* POST /pets/5 is refused with the template /pets/{petId} in the message.
C19_Witness ==
    /\ Called("method")
    /\ pl_req.Path = <<"pets", "5">>
    /\ pl_result = Err(<<"method '%s' not allowed for path '%s'", "POST",
                         <<"pets", "{petId}">>>>)
    /\ pl_st.ctx.Operation = Nil

\* trunc(v) mod trunc(m) = 0, both truncated toward zero.
TruncatedMultiple(v, m) ==
    /\ Trunc(m) # 0
    /\ Abs(Trunc(v)) % Abs(Trunc(m)) = 0

WithinBounds(v, schema) ==
    /\ schema.Minimum # Nil => ~NumLess(v, Deref(schema.Minimum))
    /\ schema.Maximum # Nil => ~NumLess(Deref(schema.Maximum), v)

\* C22: for a schema of type integer or number with multipleOf m > 0 and a
\* number v inside the bounds, validateNumber returns, and it accepts v iff
\* trunc(v) mod trunc(m) = 0 (and, for type integer, v is whole).
C22_MultipleOfTruncated ==
    (HelperReturned("validateNumber") /\ fn_call.schema.MultipleOf # Nil
         /\ WithinBounds(fn_call.value, fn_call.schema)) =>
        /\ fn_result \in {"T", "F"}
        /\ fn_result = "T" <=>
               /\ TruncatedMultiple(fn_call.value, Deref(fn_call.schema.MultipleOf))
               /\ fn_call.schema.Type = "integer" => IsWhole(fn_call.value)

-----------------------------------------------------------------------------
(* The middleware (middleware/middleware.go): concurrent ServeHTTP calls   *)
(* on one OASMiddleware.  The calls share m.validator, whose apiSpec field  *)
(* SetApiSpec writes and every stage of ValidateRequest reads, without a   *)
(* lock: a read sees the value of the latest write of any call.  net/http *)
(* runs each request on its own goroutine, so the steps interleave freely. *)

\* Largest number of ServeHTTP calls in flight.
MaxCalls == 2
Calls == 1..MaxCalls

\* The specifications New has loaded: the pet API, and an API whose
\* POST /pets takes an optional JSON body and asks for no credentials.
MiddlewareApis ==
    [petstore |-> PetApi,
     forms |-> BodyApi(JsonBody(FALSE, Ptr(RefTo("PetByAge"))))]

\* oas.HostBasedSelector(hostMap): hostMap[r.Host], "" for an unknown host.
HostMap == ("api.pets.com" :> "petstore") @@ ("api.forms.com" :> "forms")
HostBasedSelector(host) == IF host \in DOMAIN HostMap THEN HostMap[host] ELSE ""

ServedRoutes == UNION {DOMAIN MiddlewareApis[name].Paths : name \in DOMAIN MiddlewareApis}

ServedRequests ==
    {[Host |-> host, req |-> req] :
        host \in {"api.pets.com", "api.forms.com", "api.else.com"},
        req \in {Request("POST", <<"pets">>, <<>>, "", "", "", "{\"age\":5}"),
                 Request("POST", <<"pets">>, <<>>, "Bearer tok", "", "", "{\"age\":5}"),
                 Request("GET", <<"pets", "5">>, <<>>, "", "", "", "")}}

MiddlewareInit ==
    /\ mw_apiSpec = Nil
    /\ mw_pc = [t \in Calls |-> "get"]
    /\ mw_req \in [Calls -> ServedRequests]
    /\ mw_local = [t \in Calls |->
                      [received |-> mw_req[t], spec |-> Nil,
                       st |-> [ctx |-> NewContext,
                               hits |-> [route \in ServedRoutes |-> 0],
                               resolves |-> 0],
                       read |-> {}, res |-> <<>>]]
    /\ SchemaIdle /\ PipelineIdle /\ StoreIdle /\ ConcurrentIdle /\ HelperIdle
    /\ CacheIdle

\* spec, err := m.manager.GetApiSpecForRequest(r)
ServeGetApiSpecForRequest(t) ==
    /\ mw_pc[t] = "get"
    /\ LET apiName == HostBasedSelector(mw_req[t].Host)
       IN  IF apiName = ""
           THEN /\ mw_pc' = [mw_pc EXCEPT ![t] = "rejected"]
                /\ mw_local' = [mw_local EXCEPT ![t].res =
                                   Err(<<"could not determine API specification">>)]
           ELSE IF apiName \notin DOMAIN MiddlewareApis
           THEN /\ mw_pc' = [mw_pc EXCEPT ![t] = "rejected"]
                /\ mw_local' = [mw_local EXCEPT ![t].res =
                                   Err(<<"API spec '%s' not found", apiName>>)]
           ELSE /\ mw_pc' = [mw_pc EXCEPT ![t] = "set"]
                /\ mw_local' = [mw_local EXCEPT ![t].spec = Ptr(apiName)]
    /\ UNCHANGED <<mw_apiSpec, mw_req, svVars, plVars, stVars, ccVars, fnVars, bcVars>>

\* m.validator.SetApiSpec(spec); oasRequest := oas.NewOASRequest(r)
ServeSetApiSpec(t) ==
    /\ mw_pc[t] = "set"
    /\ mw_apiSpec' = mw_local[t].spec
    /\ mw_pc' = [mw_pc EXCEPT ![t] = "enter"]
    /\ UNCHANGED <<mw_req, mw_local, svVars, plVars, stVars, ccVars, fnVars, bcVars>>

\* ValidateRequest: if v.apiSpec == nil { return false, ... }
ServeEnterValidateRequest(t) ==
    /\ mw_pc[t] = "enter"
    /\ IF mw_apiSpec = Nil
       THEN /\ mw_pc' = [mw_pc EXCEPT ![t] = "rejected"]
            /\ mw_local' = [mw_local EXCEPT ![t].res =
                               Err(<<"no API spec selected, call SetCurrentAPI first">>)]
       ELSE /\ mw_pc' = [mw_pc EXCEPT ![t] = "path"]
            /\ UNCHANGED mw_local
    /\ UNCHANGED <<mw_apiSpec, mw_req, svVars, plVars, stVars, ccVars, fnVars, bcVars>>

\* The ends of one stage of ValidateRequest.
StageEnds(stage, apiSpec, req, st) ==
    CASE stage = "path" -> ValidateRequestPath(apiSpec, req, st)
      [] stage = "method" -> ValidateRequestMethod(apiSpec, req, st)
      [] stage = "params" -> ValidateParameters(apiSpec, req, st)
      [] stage = "body" -> ValidateRequestBody(apiSpec, req, st)
      [] stage = "security" -> ValidateSecurity(apiSpec, req, st)

\* What is left to read of req.Request.Body after ValidateRequestBody on a
\* complete context: json.NewDecoder(Body).Decode reads the body once the
\* checks before it have passed.
BodyLeftUnread(req, st) ==
    LET requestBody == Deref(st.ctx.Operation).RequestBody
        given == HeaderGet(req, "Content-Type")
        contentType == IF given = "" THEN "application/json" ELSE given
    IN  IF /\ requestBody # Nil
           /\ ~(Deref(requestBody).Required /\ req.ContentLength = 0)
           /\ contentType \in DOMAIN Deref(requestBody).Content
           /\ Deref(requestBody).Content[contentType].Schema # Nil
        THEN ""
        ELSE req.Body

\* One stage of ValidateRequest in call t, on the specification the shared
\* validator holds at this moment; after the last stage ServeHTTP calls
\* m.next.ServeHTTP(w, r), after a failing one http.Error.
ServeStage(t) ==
    /\ mw_pc[t] \in {"path", "method", "params", "body", "security"}
    /\ LET stage == mw_pc[t]
           apiName == Deref(mw_apiSpec)
           req == mw_req[t].req
       IN  \E e \in StageEnds(stage, MiddlewareApis[apiName], req, mw_local[t].st) :
               /\ mw_local' = [mw_local EXCEPT
                                  ![t].st = e.st,
                                  ![t].read = @ \cup {apiName},
                                  ![t].res = IF e.res.kind # "ok"
                                                \/ StageAfter(stage) = "return"
                                             THEN e.res ELSE @]
               /\ mw_req' = IF stage = "body" /\ ContextComplete(mw_local[t].st.ctx)
                            THEN [mw_req EXCEPT ![t].req.Body =
                                     BodyLeftUnread(req, mw_local[t].st)]
                            ELSE mw_req
               /\ mw_pc' = [mw_pc EXCEPT ![t] =
                               IF e.res.kind = "panic" \/ e.res.kind = "deep"
                               THEN "aborted"
                               ELSE IF e.res.kind # "ok" THEN "rejected"
                               ELSE IF StageAfter(stage) = "return" THEN "next"
                               ELSE StageAfter(stage)]
    /\ UNCHANGED <<mw_apiSpec, svVars, plVars, stVars, ccVars, fnVars, bcVars>>

MiddlewareNext ==
    \/ \E t \in Calls : ServeGetApiSpecForRequest(t)
    \/ \E t \in Calls : ServeSetApiSpec(t)
    \/ \E t \in Calls : ServeEnterValidateRequest(t)
    \/ \E t \in Calls : ServeStage(t)

SpecMiddleware == MiddlewareInit /\ [][MiddlewareNext]_vars

\* The results ValidateRequest can give for req on apiSpec alone.
ValidateRequestResults(apiSpec, req) ==
    LET fresh == [ctx |-> NewContext, hits |-> [route \in ServedRoutes |-> 0],
                  resolves |-> 0]
        security(s) == ValidateSecurity(apiSpec, req, s)
        body(s) == Continue(ValidateRequestBody(apiSpec, req, s), security)
        params(s) == Continue(ValidateParameters(apiSpec, req, s), body)
        method(s) == Continue(ValidateRequestMethod(apiSpec, req, s), params)
    IN  {e.res : e \in Continue(ValidateRequestPath(apiSpec, req, fresh), method)}

\* C23: every stage of the validation of a request reads the specification
\* GetApiSpecForRequest returned for that request, and the next handler is
\* called only for a request that passes validation against it.
C23_ValidatedAgainstSelected ==
    \A t \in Calls :
        /\ mw_local[t].read \subseteq mw_local[t].spec
        /\ mw_pc[t] = "next" =>
               Ok \in ValidateRequestResults(MiddlewareApis[Deref(mw_local[t].spec)],
                                             mw_local[t].received.req)

\* C27: the request handed to the next handler is the request received:
\* same method, path, headers, query and body still to read.
C27_RequestUnchanged ==
    \A t \in Calls : mw_pc[t] = "next" => mw_req[t] = mw_local[t].received

-----------------------------------------------------------------------------
(* The specification store (oas/manager.go, OASManager).                   *)

\* Most operations a behaviour of the store runs.
MaxOps == 4
\* Latest time the clock reaches.
MaxClock == 2
\* Largest expiry and path-hit minimum of the configuration a store is
\* built with, and its capacity (CacheConfig.MaxAPIs).
MaxExpiry == 1
MaxMinPathHits == 1
MaxCapacity == 1

Names == {"petstore", "billing"}
Contents == {"v1", "v2", "v2x", "{bad"}
StorePaths == {<<"pets">>, <<"pets", "5">>, <<"owners">>}

\* What LoadAPI parses out of a content: its routes, its components, its
\* global security requirements.  Nil is a parse error.
ParseContent(content) ==
    CASE content = "v1" ->
             Ptr([Routes |-> {<<"pets">>, <<"pets", "{petId}">>},
                  Components |-> {"Pet"},
                  Security |-> <<>>])
      [] content = "v2" ->
             Ptr([Routes |-> {<<"pets">>},
                  Components |-> {"Pet", "Dog"},
                  Security |-> <<[bearerAuth |-> <<>>]>>])
      [] content = "v2x" ->
             Ptr([Routes |-> {<<"owners">>},
                  Components |-> {},
                  Security |-> <<>>])
      [] OTHER -> Nil

\* xxh3.HashString: 64 bits for contents of any length, so some contents
\* share a hash; "v2" and "v2x" stand for such a pair.
Hash(content) ==
    CASE content = "v1" -> 1
      [] content = "v2" -> 2
      [] content = "v2x" -> 2
      [] OTHER -> 3

\* A slip: a path entry that starts with one hit.
parsePathsFromRawCounted(routes) ==
    [route \in routes |-> [Route |-> route, HitCount |-> 1, LastAccess |-> 0]]

\* parsePathsFromRaw: one PathCache per route, HitCount 0 and the zero time.
parsePathsFromRaw(routes) ==
    [route \in routes |-> [Route |-> route, HitCount |-> 0, LastAccess |-> 0]]

Without(apiSpecs, name) == [n \in DOMAIN apiSpecs \ {name} |-> apiSpecs[n]]

\* A slip: the hash of the registered entry is not looked at.
LoadAPIAlwaysParses(apiSpecs, name, content, now, id) ==
    LET parsed == ParseContent(content)
    IN  IF parsed = Nil
        THEN [apiSpecs |-> Without(apiSpecs, name), err |-> "failed to parse"]
        ELSE [apiSpecs |->
                  Without(apiSpecs, name) @@
                  (name :> [id |-> id, content |-> content, hash |-> Hash(content),
                            Paths |-> parsePathsFromRaw(Deref(parsed).Routes),
                            Components |-> Deref(parsed).Components,
                            Security |-> Deref(parsed).Security,
                            LastAccess |-> now, HitCount |-> 0]),
              err |-> ""]

\* LoadAPI under the exclusive lock: the store it leaves and its error.
LoadAPI(apiSpecs, name, content, now, id) ==
    LET hash == Hash(content)
        parsed == ParseContent(content)
    IN  IF name \in DOMAIN apiSpecs /\ apiSpecs[name].hash = hash
        THEN [apiSpecs |-> apiSpecs, err |-> ""]
        ELSE IF parsed = Nil
        THEN [apiSpecs |-> Without(apiSpecs, name), err |-> "failed to parse"]
        ELSE [apiSpecs |->
                  Without(apiSpecs, name) @@
                  (name :> [id |-> id, content |-> content, hash |-> hash,
                            Paths |-> parsePathsFromRaw(Deref(parsed).Routes),
                            Components |-> Deref(parsed).Components,
                            Security |-> Deref(parsed).Security,
                            LastAccess |-> now, HitCount |-> 0]),
              err |-> ""]

\* GetApiSpec: counts the hit and stamps the access of a registered name.
GetApiSpec(apiSpecs, name, now) ==
    IF name \in DOMAIN apiSpecs
    THEN [apiSpecs |-> [apiSpecs EXCEPT ![name].HitCount = @ + 1,
                                        ![name].LastAccess = now],
          err |-> ""]
    ELSE [apiSpecs |-> apiSpecs, err |-> "API spec '%s' not found"]

\* A plausible slip: the eviction of a name empties the store.
EvictApiSpecEvictsAll(apiSpecs, name) == <<>>

EvictApiSpec(apiSpecs, name) == Without(apiSpecs, name)

EvictAllApiSpecs == <<>>

\* CleanApiSpec: drops the specifications idle for longer than the expiry,
\* then, in those that stay, the paths with fewer hits than the minimum.
CleanApiSpec(apiSpecs, config, now) ==
    LET fresh == {n \in DOMAIN apiSpecs :
                     ~(now - apiSpecs[n].LastAccess > config.APIExpiryTime)}
        Hot(spec) == {route \in DOMAIN spec.Paths :
                         ~(spec.Paths[route].HitCount < config.MinPathHits)}
    IN  [n \in fresh |->
            [apiSpecs[n] EXCEPT !.Paths = [route \in Hot(apiSpecs[n]) |-> @[route]]]]

\* ResolveRequestPath on the specification registered under name: the
\* stores it may leave, none when no route is found.
ResolvePathIn(apiSpecs, name, path, now) ==
    {[apiSpecs EXCEPT ![name].Paths[route].HitCount = @ + 1,
                      ![name].Paths[route].LastAccess = now] :
        route \in ResolveCandidates(apiSpecs[name].Paths, path)}

Configs ==
    [APIExpiryTime : 0..MaxExpiry, MinPathHits : 0..MaxMinPathHits,
     MaxAPIs : {MaxCapacity}]

\* NewOASManager: an empty store.
StoreInit ==
    /\ st_apiSpecs = <<>>
    /\ st_config \in Configs
    /\ st_clock = 1
    /\ st_nextId = 1
    /\ st_last = [op |-> "new", name |-> "", content |-> "", err |-> "",
                  before |-> <<>>, n |-> 0, plain |-> TRUE, loaded |-> {}]
    /\ SchemaIdle /\ PipelineIdle /\ ConcurrentIdle /\ HelperIdle
    /\ MiddlewareIdle /\ CacheIdle

\* The history so far is plain when it holds only successful calls of
\* LoadAPI, GetApiSpec, EvictApiSpec and EvictAllApiSpecs, and calls of
\* GetApiSpec that failed.
StaysPlain(op, err) ==
    \/ op = "LoadAPI" /\ err = ""
    \/ op \in {"GetApiSpec", "EvictApiSpec", "EvictAllApiSpecs"}

\* The names of a plain history with a LoadAPI that no EvictApiSpec of the
\* name and no EvictAllApiSpecs has followed.
LoadedAfter(loaded, op, name) ==
    CASE op = "LoadAPI" -> loaded \cup {name}
      [] op = "EvictApiSpec" -> loaded \ {name}
      [] op = "EvictAllApiSpecs" -> {}
      [] OTHER -> loaded

Ran(op, name, content, err) ==
    /\ st_last.n < MaxOps
    /\ st_last' = [op |-> op, name |-> name, content |-> content, err |-> err,
                   before |-> st_apiSpecs, n |-> st_last.n + 1,
                   plain |-> st_last.plain /\ StaysPlain(op, err),
                   loaded |-> IF st_last.plain /\ StaysPlain(op, err)
                              THEN LoadedAfter(st_last.loaded, op, name)
                              ELSE {}]

DoLoadAPI ==
    \E name \in Names, content \in Contents :
        LET out == LoadAPI(st_apiSpecs, name, content, st_clock, st_nextId)
        IN  /\ Ran("LoadAPI", name, content, out.err)
            /\ st_apiSpecs' = out.apiSpecs
            /\ st_nextId' = st_nextId + 1
            /\ UNCHANGED <<st_config, st_clock, svVars, plVars, ccVars, fnVars, mwVars, bcVars>>

DoGetApiSpec ==
    \E name \in Names :
        LET out == GetApiSpec(st_apiSpecs, name, st_clock)
        IN  /\ Ran("GetApiSpec", name, "", out.err)
            /\ st_apiSpecs' = out.apiSpecs
            /\ UNCHANGED <<st_config, st_clock, st_nextId, svVars, plVars, ccVars, fnVars, mwVars, bcVars>>

DoEvictApiSpec ==
    \E name \in Names :
        /\ Ran("EvictApiSpec", name, "", "")
        /\ st_apiSpecs' = EvictApiSpec(st_apiSpecs, name)
        /\ UNCHANGED <<st_config, st_clock, st_nextId, svVars, plVars, ccVars, fnVars, mwVars, bcVars>>

DoEvictAllApiSpecs ==
    /\ Ran("EvictAllApiSpecs", "", "", "")
    /\ st_apiSpecs' = EvictAllApiSpecs
    /\ UNCHANGED <<st_config, st_clock, st_nextId, svVars, plVars, ccVars, fnVars, mwVars, bcVars>>

DoCleanApiSpec ==
    /\ Ran("CleanApiSpec", "", "", "")
    /\ st_apiSpecs' = CleanApiSpec(st_apiSpecs, st_config, st_clock)
    /\ UNCHANGED <<st_config, st_clock, st_nextId, svVars, plVars, ccVars, fnVars, mwVars, bcVars>>

\* A request validation resolves its route in a registered specification.
DoResolveRequestPath ==
    \E name \in DOMAIN st_apiSpecs, path \in StorePaths :
        LET outs == ResolvePathIn(st_apiSpecs, name, path, st_clock)
        IN  /\ IF outs = {}
               THEN /\ Ran("ResolveRequestPath", name, "", "no schema found for path '%s'")
                    /\ UNCHANGED st_apiSpecs
               ELSE /\ Ran("ResolveRequestPath", name, "", "")
                    /\ st_apiSpecs' \in outs
            /\ UNCHANGED <<st_config, st_clock, st_nextId, svVars, plVars, ccVars, fnVars, mwVars, bcVars>>

\* Time passes between operations.
Tick ==
    /\ st_clock < MaxClock
    /\ st_clock' = st_clock + 1
    /\ UNCHANGED <<st_apiSpecs, st_config, st_nextId, st_last, svVars, plVars, ccVars, fnVars, mwVars, bcVars>>

Next ==
    \/ DoLoadAPI
    \/ DoGetApiSpec
    \/ DoEvictApiSpec
    \/ DoEvictAllApiSpecs
    \/ DoCleanApiSpec
    \/ DoResolveRequestPath
    \/ Tick

Spec == StoreInit /\ [][Next]_vars

-----------------------------------------------------------------------------
(* Properties of the store.                                                *)

\* The last operation was LoadAPI(name, content) on a store that had name.
Reloaded ==
    /\ st_last # <<>> /\ st_last.op = "LoadAPI"
    /\ st_last.name \in DOMAIN st_last.before

\* The entry of name is the one freshly parsed from content, with its
\* statistics at zero, and the other names are as they were.
ReplacedBy(name, content) ==
    /\ name \in DOMAIN st_apiSpecs
    /\ LET spec == st_apiSpecs[name]
           parsed == Deref(ParseContent(content))
       IN  /\ spec.content = content
           /\ spec.id # st_last.before[name].id
           /\ DOMAIN spec.Paths = parsed.Routes
           /\ spec.Components = parsed.Components
           /\ spec.Security = parsed.Security
           /\ spec.HitCount = 0
           /\ \A route \in DOMAIN spec.Paths : spec.Paths[route].HitCount = 0
    /\ DOMAIN st_apiSpecs = DOMAIN st_last.before
    /\ \A other \in DOMAIN st_apiSpecs \ {name} :
           st_apiSpecs[other] = st_last.before[other]

\* C7: LoadAPI(name, content) on a store where name holds the same content
\* returns no error and leaves the store as it was: same specification,
\* same hit counter, last access and path statistics.
C7_LoadIdempotent ==
    (Reloaded /\ st_last.before[st_last.name].content = st_last.content) =>
        /\ st_last.err = ""
        /\ st_apiSpecs = st_last.before

\* The same content was loaded again over an entry that had been hit.
C7_Witness ==
    /\ Reloaded
    /\ st_last.before[st_last.name].content = st_last.content
    /\ st_last.before[st_last.name].HitCount > 0
    /\ \E route \in DOMAIN st_last.before[st_last.name].Paths :
           st_last.before[st_last.name].Paths[route].HitCount > 0
    /\ st_apiSpecs = st_last.before

C10_SpecificationImmutable ==
    \A name \in DOMAIN st_apiSpecs :
        LET spec == st_apiSpecs[name]
            parsed == Deref(ParseContent(spec.content))
        IN  /\ DOMAIN spec.Paths = parsed.Routes
            /\ spec.Components = parsed.Components
            /\ spec.Security = parsed.Security

\* C11: the store never holds more specifications than its configuration
\* allows (CacheConfig.MaxAPIs).
C11_CapacityHonoured ==
    st_config # <<>> => Cardinality(DOMAIN st_apiSpecs) <= st_config.MaxAPIs

\* C20: after a plain history GetApiSpec(n) succeeds iff n has a LoadAPI
\* that no EvictApiSpec(n) and no EvictAllApiSpecs has followed;
\* EvictApiSpec(n) leaves the entries of the other names, statistics
\* included, as they were; a GetApiSpec that fails with "API spec not
\* found" leaves the store as it was.
C20_StoreFollowsLoadsAndEvictions ==
    /\ (st_last # <<>> /\ st_last.op = "GetApiSpec" /\ st_last.plain) =>
           (st_last.err = "" <=> st_last.name \in st_last.loaded)
    /\ (st_last # <<>> /\ st_last.op = "GetApiSpec" /\ st_last.err # "") =>
           /\ st_last.err = "API spec '%s' not found"
           /\ st_apiSpecs = st_last.before
    /\ (st_last # <<>> /\ st_last.op = "EvictApiSpec") =>
           \A other \in DOMAIN st_last.before \ {st_last.name} :
               /\ other \in DOMAIN st_apiSpecs
               /\ st_apiSpecs[other] = st_last.before[other]

\* Both names were loaded and one of them read; the other is evicted and
\* the one that was read stays registered with its hit count.
C20_Witness ==
    /\ st_last # <<>> /\ st_last.op = "EvictApiSpec" /\ st_last.plain
    /\ st_last.name \in DOMAIN st_last.before
    /\ \E other \in DOMAIN st_apiSpecs :
           /\ st_last.loaded = {other}
           /\ st_apiSpecs[other].HitCount > 0

\* C24: a LoadAPI that returns a parse error leaves the store as it was:
\* every entry registered before the call, the one under the name of the
\* call included, is still there with its content and statistics.
C24_FailedLoadKeepsStore ==
    (st_last # <<>> /\ st_last.op = "LoadAPI" /\ st_last.err # "") =>
        \A name \in DOMAIN st_last.before :
            /\ name \in DOMAIN st_apiSpecs
            /\ st_apiSpecs[name] = st_last.before[name]

\* What does hold: a failed LoadAPI leaves the entries of the other names.
C24_FailedLoadKeepsOthers ==
    (st_last # <<>> /\ st_last.op = "LoadAPI" /\ st_last.err # "") =>
        \A name \in DOMAIN st_last.before \ {st_last.name} :
            /\ name \in DOMAIN st_apiSpecs
            /\ st_apiSpecs[name] = st_last.before[name]

-----------------------------------------------------------------------------
(* Concurrent calls on one loaded specification: goroutines that call      *)
(* GetApiSpec(name) and goroutines whose request validation resolves the   *)
(* same route.  spec.HitCount++ and pathCache.HitCount++ are a read and a  *)
(* write of a plain int64; GetApiSpec runs them holding the shared lock    *)
(* (mu.RLock), ResolveRequestPath holding no lock at all.  No goroutine    *)
(* takes the exclusive lock here.                                          *)

MaxThreads == 3
Threads == 1..MaxThreads

ConcurrentInit ==
    /\ cc_kind \in [Threads -> {"GetApiSpec", "ResolveRequestPath"}]
    /\ cc_pc = [t \in Threads |-> "start"]
    /\ cc_local = [t \in Threads |-> 0]
    /\ cc_readers = 0
    /\ cc_HitCount = 0
    /\ cc_PathHitCount = 0
    /\ SchemaIdle /\ PipelineIdle /\ StoreIdle /\ HelperIdle
    /\ MiddlewareIdle /\ CacheIdle

\* m.mu.RLock(): shared, any number of readers.
GetRLock(t) ==
    /\ cc_kind[t] = "GetApiSpec" /\ cc_pc[t] = "start"
    /\ cc_readers' = cc_readers + 1
    /\ cc_pc' = [cc_pc EXCEPT ![t] = "locked"]
    /\ UNCHANGED <<cc_kind, cc_local, cc_HitCount, cc_PathHitCount, svVars, plVars, stVars, fnVars, mwVars, bcVars>>

\* spec.HitCount++, the read.
GetReadHitCount(t) ==
    /\ cc_kind[t] = "GetApiSpec" /\ cc_pc[t] = "locked"
    /\ cc_local' = [cc_local EXCEPT ![t] = cc_HitCount]
    /\ cc_pc' = [cc_pc EXCEPT ![t] = "read"]
    /\ UNCHANGED <<cc_kind, cc_readers, cc_HitCount, cc_PathHitCount, svVars, plVars, stVars, fnVars, mwVars, bcVars>>

\* spec.HitCount++, the write.
GetWriteHitCount(t) ==
    /\ cc_kind[t] = "GetApiSpec" /\ cc_pc[t] = "read"
    /\ cc_HitCount' = cc_local[t] + 1
    /\ cc_pc' = [cc_pc EXCEPT ![t] = "written"]
    /\ UNCHANGED <<cc_kind, cc_local, cc_readers, cc_PathHitCount, svVars, plVars, stVars, fnVars, mwVars, bcVars>>

\* The deferred m.mu.RUnlock() and the return.
GetRUnlock(t) ==
    /\ cc_kind[t] = "GetApiSpec" /\ cc_pc[t] = "written"
    /\ cc_readers' = cc_readers - 1
    /\ cc_pc' = [cc_pc EXCEPT ![t] = "done"]
    /\ UNCHANGED <<cc_kind, cc_local, cc_HitCount, cc_PathHitCount, svVars, plVars, stVars, fnVars, mwVars, bcVars>>

\* pathCache.HitCount++, the read, after the lookup found the entry.
ResolveReadHitCount(t) ==
    /\ cc_kind[t] = "ResolveRequestPath" /\ cc_pc[t] = "start"
    /\ cc_local' = [cc_local EXCEPT ![t] = cc_PathHitCount]
    /\ cc_pc' = [cc_pc EXCEPT ![t] = "read"]
    /\ UNCHANGED <<cc_kind, cc_readers, cc_HitCount, cc_PathHitCount, svVars, plVars, stVars, fnVars, mwVars, bcVars>>

\* pathCache.HitCount++, the write, and the return.
ResolveWriteHitCount(t) ==
    /\ cc_kind[t] = "ResolveRequestPath" /\ cc_pc[t] = "read"
    /\ cc_PathHitCount' = cc_local[t] + 1
    /\ cc_pc' = [cc_pc EXCEPT ![t] = "done"]
    /\ UNCHANGED <<cc_kind, cc_local, cc_readers, cc_HitCount, svVars, plVars, stVars, fnVars, mwVars, bcVars>>

ConcurrentNext ==
    \/ \E t \in Threads : GetRLock(t)
    \/ \E t \in Threads : GetReadHitCount(t)
    \/ \E t \in Threads : GetWriteHitCount(t)
    \/ \E t \in Threads : GetRUnlock(t)
    \/ \E t \in Threads : ResolveReadHitCount(t)
    \/ \E t \in Threads : ResolveWriteHitCount(t)

SpecConcurrent == ConcurrentInit /\ [][ConcurrentNext]_vars

\* C9: when all the concurrent calls have completed, the hit counter of
\* the specification has grown by the number of GetApiSpec calls and the
\* hit counter of the route by the number of route resolutions.
C9_NoLostIncrement ==
    (cc_pc # <<>> /\ \A t \in Threads : cc_pc[t] = "done") =>
        /\ cc_HitCount = Cardinality({t \in Threads : cc_kind[t] = "GetApiSpec"})
        /\ cc_PathHitCount =
               Cardinality({t \in Threads : cc_kind[t] = "ResolveRequestPath"})

-----------------------------------------------------------------------------
(* BaseCache (package cache), the cache of parsed specifications of the    *)
(* parser: a map from uint64 keys to entries, a capacity and a time to     *)
(* live.  The calls are sequential; each call reads the clock once and the *)
(* clock has moved on at the next call.                                    *)

MaxSize == 2
MaxKey == 2
MaxTtl == 2
MaxCacheOps == 4

CacheKeys == 0..MaxKey
CacheValues == {"a", "b"}

\* The zero time.Time of `var oldestAccess time.Time`: before every reading
\* of the clock.
ZeroTime == 0

\* NewBaseCache(maxSize, ttl).
CacheInit ==
    /\ bc_entries = <<>>
    /\ bc_maxSize \in 1..MaxSize
    /\ bc_ttl \in 1..MaxTtl
    /\ bc_stats = [Hits |-> 0, Misses |-> 0, Size |-> 0, MaxSize |-> 0, EvictCount |-> 0]
    /\ bc_now = 1
    /\ bc_last = [op |-> "new", key |-> 0, found |-> FALSE, before |-> <<>>,
                  n |-> 0, zeroSet |-> FALSE]
    /\ SchemaIdle /\ PipelineIdle /\ StoreIdle /\ ConcurrentIdle /\ HelperIdle
    /\ MiddlewareIdle

\* The orders in which `range c.entries` may visit the keys.
RangeOrders(entries) ==
    {order \in [1..Cardinality(DOMAIN entries) -> DOMAIN entries] :
        \A i, j \in DOMAIN order : i # j => order[i] # order[j]}

\* The loop of evictOldest from the i-th key of the order on: the key it
\* ends with.  oldestKey == 0 stands for "no key chosen yet".
RECURSIVE OldestScan(_, _, _, _, _)
OldestScan(entries, order, i, oldestKey, oldestAccess) ==
    IF i > Len(order) THEN oldestKey
    ELSE LET key == order[i]
             entry == entries[key]
         IN  IF oldestKey = 0 \/ entry.LastAccess < oldestAccess
             THEN OldestScan(entries, order, i + 1, key, entry.LastAccess)
             ELSE OldestScan(entries, order, i + 1, oldestKey, oldestAccess)

\* evictOldest: the entries and statistics it may leave, one for each order
\* of the range.
evictOldest(entries, stats) ==
    {LET oldestKey == OldestScan(entries, order, 1, 0, ZeroTime)
     IN  IF oldestKey # 0
         THEN [entries |-> Without(entries, oldestKey),
               stats |-> [stats EXCEPT !.EvictCount = @ + 1]]
         ELSE [entries |-> entries, stats |-> stats] :
        order \in RangeOrders(entries)}

CacheRan(op, key, found) ==
    /\ bc_last.n < MaxCacheOps
    /\ bc_last' = [op |-> op, key |-> key, found |-> found, before |-> bc_entries,
                   n |-> bc_last.n + 1,
                   zeroSet |-> bc_last.zeroSet \/ (op = "Set" /\ key = 0)]
    /\ bc_now' = bc_now + 1
    /\ UNCHANGED <<bc_maxSize, bc_ttl>>

\* Set(key, value).
CacheSet ==
    \E key \in CacheKeys, value \in CacheValues :
        \E room \in IF Cardinality(DOMAIN bc_entries) >= bc_maxSize
                     THEN evictOldest(bc_entries, bc_stats)
                     ELSE {[entries |-> bc_entries, stats |-> bc_stats]} :
            LET entry == [Value |-> value, ExpiresAt |-> bc_now + bc_ttl,
                          LastAccess |-> bc_now]
                entries == [k \in DOMAIN room.entries \cup {key} |->
                               IF k = key THEN entry ELSE room.entries[k]]
            IN  /\ CacheRan("Set", key, FALSE)
                /\ bc_entries' = entries
                /\ bc_stats' = [room.stats EXCEPT !.Size = Cardinality(DOMAIN entries)]
                /\ UNCHANGED <<svVars, plVars, stVars, ccVars, fnVars, mwVars>>

\* Get(key): a miss for an absent key; an expired entry is deleted and is
\* a miss; else the access is stamped and the value returned.
CacheGet ==
    \E key \in CacheKeys :
        /\ IF key \notin DOMAIN bc_entries
           THEN /\ CacheRan("Get", key, FALSE)
                /\ bc_stats' = [bc_stats EXCEPT !.Misses = @ + 1]
                /\ UNCHANGED bc_entries
           ELSE IF bc_now > bc_entries[key].ExpiresAt
           THEN /\ CacheRan("Get", key, FALSE)
                /\ bc_entries' = Without(bc_entries, key)
                /\ bc_stats' = [bc_stats EXCEPT
                                    !.Size = Cardinality(DOMAIN bc_entries \ {key}),
                                    !.Misses = @ + 1]
           ELSE /\ CacheRan("Get", key, TRUE)
                /\ bc_entries' = [bc_entries EXCEPT ![key].LastAccess = bc_now]
                /\ bc_stats' = [bc_stats EXCEPT !.Hits = @ + 1]
        /\ UNCHANGED <<svVars, plVars, stVars, ccVars, fnVars, mwVars>>

\* Remove(key).
CacheRemove ==
    \E key \in CacheKeys :
        /\ CacheRan("Remove", key, FALSE)
        /\ bc_entries' = Without(bc_entries, key)
        /\ bc_stats' = [bc_stats EXCEPT !.Size = Cardinality(DOMAIN bc_entries \ {key})]
        /\ UNCHANGED <<svVars, plVars, stVars, ccVars, fnVars, mwVars>>

\* Clear().
CacheClear ==
    /\ CacheRan("Clear", 0, FALSE)
    /\ bc_entries' = <<>>
    /\ bc_stats' = [bc_stats EXCEPT !.Size = 0]
    /\ UNCHANGED <<svVars, plVars, stVars, ccVars, fnVars, mwVars>>

CacheNext ==
    \/ CacheSet
    \/ CacheGet
    \/ CacheRemove
    \/ CacheClear

SpecCache == CacheInit /\ [][CacheNext]_vars

\* The entries with the oldest last access among those of the map.
OldestKeys(entries) ==
    {key \in DOMAIN entries :
        \A other \in DOMAIN entries :
            entries[key].LastAccess <= entries[other].LastAccess}

\* The Set had to evict: the map was full and the key was not in it.
HadToEvict ==
    /\ bc_last # <<>> /\ bc_last.op = "Set"
    /\ Cardinality(DOMAIN bc_last.before) >= bc_maxSize
    /\ bc_last.key \notin DOMAIN bc_last.before

\* C30: the cache never holds more entries than maxSize, and a Set that has
\* to evict removes the entry with the oldest last access and no other.
C30_CapacityAndOldestEvicted ==
    /\ Cardinality(DOMAIN bc_entries) <= bc_maxSize
    /\ HadToEvict =>
           \E oldest \in OldestKeys(bc_last.before) :
               DOMAIN bc_entries = (DOMAIN bc_last.before \ {oldest}) \cup {bc_last.key}

\* What does hold: both, as long as no Set was called with key 0.
C30_HoldsWithoutKeyZero ==
    (bc_last # <<>> /\ ~bc_last.zeroSet) =>
        /\ Cardinality(DOMAIN bc_entries) <= bc_maxSize
        /\ HadToEvict =>
               \E oldest \in OldestKeys(bc_last.before) :
                   DOMAIN bc_entries =
                       (DOMAIN bc_last.before \ {oldest}) \cup {bc_last.key}

=============================================================================
